---- MODULE Spec2Model ----
(***************************************************************************)
(* Model of the travel-booking chat backend (backend/app): the Booking     *)
(* Provider client functions of custom_tools.py, the in-memory Trip Ledger *)
(* (trip_storage) and the per-connection conversation loop of main.py.     *)
(*                                                                         *)
(* Conventions                                                             *)
(*   - Optional[str] fields hold a string or the sentinel None.            *)
(*   - Optional objects / lists are Nil (= <<>>) or Some(v) (= <<v>>).     *)
(*   - A Python dict that is iterated (trip_storage) is an association     *)
(*     list in insertion order.                                            *)
(*   - Provider JSON is a record that says which keys are present.         *)
(***************************************************************************)
EXTENDS Integers, Sequences, FiniteSets, TLC

VARIABLES
    trip_storage,   \* custom_tools.trip_storage: <<[trip_id, bookings]>> in insertion order
    now,            \* index into Instants: the wall clock read by datetime.now()
    last,           \* the last tool operation: its name, inputs, clock reads and result
    ledger_log,     \* history: one entry per ledger append, [at, trip_id, booking_type]
    active_connections, \* main.manager.active_connections
    pc,             \* per connection: where websocket_endpoint stands
    messages,       \* per connection: the local list `messages` of the current exchange
    todo,           \* per connection: the tool calls of the model response still to be handled
    trace,          \* per connection: what the current exchange sent and called, in order
    exchanges       \* per connection: inbound messages received so far

toolVars == <<trip_storage, now, last, ledger_log>>
chatVars == <<active_connections, pc, messages, todo, trace, exchanges>>
vars == <<trip_storage, now, last, ledger_log, active_connections, pc, messages, todo, trace, exchanges>>

----------------------------------------------------------------------------
(* Bounds *)

MaxBookings == 3    \* ledger appends explored
MaxFlights == 2     \* ledger appends explored where book_flight runs on every response
MaxOffers == 6      \* offers in one provider flight response
MaxSegs == 2        \* segments of one itinerary
MaxToolCalls == 2   \* tool calls in one model response
MaxExchanges == 2   \* inbound messages per connection
MaxRooms == 3       \* room offers of one hotel
MaxMsgs == 3        \* messages of one inbound list

----------------------------------------------------------------------------
(* Optional values *)

None == "<None>"
Absent == "<absent>"        \* a key that is missing from a provider JSON object
Nil == <<>>
Some(v) == <<v>>

\* Python truthiness of an Optional[str]
Truthy(s) == s # None /\ s # ""

\* dict.get(key, default) on a provider field that may be missing
Get(v, default) == IF v = Absent THEN default ELSE v

\* Python `a or b` on strings
Or(a, b) == IF Truthy(a) THEN a ELSE b

Min(a, b) == IF a <= b THEN a ELSE b

----------------------------------------------------------------------------
(* The wall clock and strftime *)

\* Instants the clock can show, in increasing order: the date changes between
\* the first two, the last two are the start and the end of one day, and the
\* unpadded digits of the two dates collide (2026-01-11 / 2026-11-01).
Instants ==
    << [Y |-> 2026, M |-> 1,  D |-> 11, h |-> 23, m |-> 59, s |-> 59],
       [Y |-> 2026, M |-> 11, D |-> 1,  h |-> 0,  m |-> 0,  s |-> 0 ],
       [Y |-> 2026, M |-> 11, D |-> 1,  h |-> 23, m |-> 59, s |-> 59] >>

Times == 1..Len(Instants)

Date(t) == [Y |-> Instants[t].Y, M |-> Instants[t].M, D |-> Instants[t].D]

Digit(d) ==
    CASE d = 0 -> "0" [] d = 1 -> "1" [] d = 2 -> "2" [] d = 3 -> "3"
      [] d = 4 -> "4" [] d = 5 -> "5" [] d = 6 -> "6" [] d = 7 -> "7"
      [] d = 8 -> "8" [] d = 9 -> "9"

\* a plausible slip: %-m / %-d style output without zero padding
Pad2Unpadded(n) == IF n < 10 THEN Digit(n) ELSE Digit(n \div 10) \o Digit(n % 10)

\* strftime %m %d %H %M %S: two digits, zero padded
Pad2(n) == Digit((n \div 10) % 10) \o Digit(n % 10)

\* strftime %Y for the years a running clock shows (1000..9999)
Pad4(n) == Digit((n \div 1000) % 10) \o Digit((n \div 100) % 10) \o Pad2(n % 100)

\* datetime.now().strftime('%Y%m%d%H%M%S')
StampYmdHMS(t) ==
    Pad4(Instants[t].Y) \o Pad2(Instants[t].M) \o Pad2(Instants[t].D)
        \o Pad2(Instants[t].h) \o Pad2(Instants[t].m) \o Pad2(Instants[t].s)

\* datetime.now().strftime('%Y%m%d')
StampYmd(t) == Pad4(Instants[t].Y) \o Pad2(Instants[t].M) \o Pad2(Instants[t].D)

\* datetime.now().strftime("%Y-%m-%d")
StampIsoDate(t) ==
    Pad4(Instants[t].Y) \o "-" \o Pad2(Instants[t].M) \o "-" \o Pad2(Instants[t].D)

----------------------------------------------------------------------------
(* Trip Ledger *)

\* models.TripBooking
TripBooking(booking_type, booking_date) ==
    [ booking_type |-> booking_type,
      booking_date |-> booking_date,
      flight_booking |-> Nil,
      hotel_booking |-> Nil,
      transfer_booking |-> Nil,
      price |-> Nil,
      guest_info |-> Nil,
      status |-> "confirmed" ]

\* models.TripDetails
TripDetails(trip_id) == [trip_id |-> trip_id, bookings |-> <<>>]

\* `trip_id in trip_storage`
HasTrip(storage, trip_id) == \E i \in DOMAIN storage : storage[i].trip_id = trip_id

TripIndex(storage, trip_id) == CHOOSE i \in DOMAIN storage : storage[i].trip_id = trip_id

\* a plausible slip: the day's trip is overwritten instead of appended to
store_booking_overwrite(storage, booking_type, booking_data, t1, t2) ==
    LET base == TripBooking(booking_type, StampIsoDate(t1))
        trip_booking ==
            CASE booking_type = "flight" -> [base EXCEPT !.flight_booking = Some(booking_data)]
              [] booking_type = "hotel" -> [base EXCEPT !.hotel_booking = Some(booking_data)]
              [] booking_type = "transfer" -> [base EXCEPT !.transfer_booking = Some(booking_data)]
              [] OTHER -> base
        trip_id == "TRIP_" \o StampYmd(t2)
        created == IF HasTrip(storage, trip_id) THEN storage
                   ELSE Append(storage, TripDetails(trip_id))
        i == TripIndex(created, trip_id)
    IN  [created EXCEPT ![i].bookings = <<trip_booking>>]

\* custom_tools.store_booking; t1 and t2 are its two reads of datetime.now()
store_booking(storage, booking_type, booking_data, t1, t2) ==
    LET base == TripBooking(booking_type, StampIsoDate(t1))
        trip_booking ==
            CASE booking_type = "flight" -> [base EXCEPT !.flight_booking = Some(booking_data)]
              [] booking_type = "hotel" -> [base EXCEPT !.hotel_booking = Some(booking_data)]
              [] booking_type = "transfer" -> [base EXCEPT !.transfer_booking = Some(booking_data)]
              [] OTHER -> base
        trip_id == "TRIP_" \o StampYmd(t2)
        created == IF HasTrip(storage, trip_id) THEN storage
                   ELSE Append(storage, TripDetails(trip_id))
        i == TripIndex(created, trip_id)
    IN  [created EXCEPT ![i].bookings = Append(@, trip_booking)]

\* number of bookings in the whole ledger
RECURSIVE CountBookings(_)
CountBookings(storage) ==
    IF storage = <<>> THEN 0
    ELSE Len(Head(storage).bookings) + CountBookings(Tail(storage))

\* models.TripDetailsResponse
TripDetailsResponse(trips, error) == [trips |-> trips, error |-> error]

\* a plausible slip: an unknown id falls through to "all trips"
get_trip_details_fallthrough(storage, trip_id) ==
    IF Truthy(trip_id) /\ HasTrip(storage, trip_id)
    THEN TripDetailsResponse(<<storage[TripIndex(storage, trip_id)]>>, None)
    ELSE TripDetailsResponse(storage, None)

\* custom_tools.get_trip_details; trip_id is params.trip_id (None when omitted)
get_trip_details(storage, trip_id) ==
    IF Truthy(trip_id)
    THEN IF HasTrip(storage, trip_id)
         THEN TripDetailsResponse(<<storage[TripIndex(storage, trip_id)]>>, None)
         ELSE TripDetailsResponse(<<>>, "Trip " \o trip_id \o " not found")
    ELSE TripDetailsResponse(storage, None)

----------------------------------------------------------------------------
(* Provider error details and the substring tests the code applies to them *)

\* detail strings a provider error entry can carry
Details ==
    { "",
      "originLocationCode must be a 3-letter code",
      "destinationLocationCode must be a 3-letter code",
      "departureDate: invalid format",
      "Date/Time is in the past",
      "SCHEDULE CHANGE DETECTED for segment 1",
      "NEED GEOCODES for the end address",
      "Internal provider error" }

\* str.lower()
Lower(s) ==
    CASE s = "originLocationCode must be a 3-letter code" -> "originlocationcode must be a 3-letter code"
      [] s = "destinationLocationCode must be a 3-letter code" -> "destinationlocationcode must be a 3-letter code"
      [] s = "departureDate: invalid format" -> "departuredate: invalid format"
      [] s = "Date/Time is in the past" -> "date/time is in the past"
      [] s = "SCHEDULE CHANGE DETECTED for segment 1" -> "schedule change detected for segment 1"
      [] s = "NEED GEOCODES for the end address" -> "need geocodes for the end address"
      [] s = "Internal provider error" -> "internal provider error"
      [] OTHER -> s

\* the (needle, haystack) pairs of the strings above for which `needle in haystack`
SubstringPairs ==
    { <<"originLocationCode", "originLocationCode must be a 3-letter code">>,
      <<"destinationLocationCode", "destinationLocationCode must be a 3-letter code">>,
      <<"departureDate", "departureDate: invalid format">>,
      <<"date/time is in the past", "date/time is in the past">>,
      <<"schedule change detected", "schedule change detected for segment 1">>,
      <<"NEED GEOCODES", "NEED GEOCODES for the end address">>,
      <<"INVALID_PARAMETER", "INVALID_PARAMETER">>,
      <<"NO_FLIGHT_FOUND", "NO_FLIGHT_FOUND">> }

\* Python `needle in haystack` on strings
Contains(needle, haystack) == <<needle, haystack>> \in SubstringPairs

----------------------------------------------------------------------------
(* search_flights *)

\* models.FlightSearchResult
FlightSearchResult(flights, error) == [flights |-> flights, error |-> error]

\* one provider segment; number i makes the segments of an itinerary distinguishable
Segment(i) ==
    [ carrierCode |-> "BA", number |-> Digit(i),
      departure |-> [at |-> "T" \o Digit(i), iataCode |-> "LAX"],
      arrival |-> [at |-> "T" \o Digit(i + 1), iataCode |-> "JFK"] ]

\* a provider offer: shape says what is wrong with it, if anything
\*   "ok"           every key the code reads is there
\*   "missing_key"  a key is missing (KeyError)
\*   "no_itinerary" itineraries is an empty list (IndexError)
\*   "bad_type"     a field has a type the result model rejects (ValidationError)
OfferShapes == {"ok", "missing_key", "no_itinerary", "bad_type"}

Offer(i, nsegs, shape) ==
    [ id |-> Digit(i), shape |-> shape,
      segments |-> [k \in 1..nsegs |-> Segment(k)],
      duration |-> "PT" \o Digit(nsegs) \o "H",
      total |-> Digit(i) \o "00.00", currency |-> "USD" ]

\* models.FlightSegment built by the inner loop of search_flights
FlightSegment(segment) ==
    [ carrier |-> segment.carrierCode, number |-> segment.number,
      departure |-> [time |-> segment.departure.at, airport |-> segment.departure.iataCode],
      arrival |-> [time |-> segment.arrival.at, airport |-> segment.arrival.iataCode] ]

\* a plausible slip: stops counted as the number of segments
FlightStopsAsSegments(offer) ==
    [ price |-> [amount |-> offer.total, currency |-> offer.currency],
      flight |-> [ segments |-> [k \in DOMAIN offer.segments |-> FlightSegment(offer.segments[k])],
                   total_duration |-> offer.duration,
                   stops |-> Len(offer.segments) ] ]

\* models.Flight built from one offer by search_flights
Flight(offer) ==
    [ price |-> [amount |-> offer.total, currency |-> offer.currency],
      flight |-> [ segments |-> [k \in DOMAIN offer.segments |-> FlightSegment(offer.segments[k])],
                   total_duration |-> offer.duration,
                   stops |-> Len(offer.segments) - 1 ] ]

\* a plausible slip: no slice at all
AllOffers(data) == data

\* a plausible slip: the slice keeps the last five offers
LastFive(data) == SubSeq(data, Len(data) - Min(Len(data), 5) + 1, Len(data))

\* response_data['data'][:5]
FirstFive(data) == SubSeq(data, 1, Min(Len(data), 5))

SearchOrigin == "LAX"
SearchDestination == "JFK"
SearchDate == "2026-11-05"

FlightTransportError ==
    "I encountered an issue while trying to search for your flight. This could be due to temporary availability issues. Please try searching for flights again, and I'll help you complete the booking. Also could be the access token issue, try refreshing it. Sorry for the inconvenience!"

\* the `if 'errors' in response_data` branch of search_flights; e is errors[0]:
\* code_is_str, code, detail (Absent when the key is missing)
search_flights_error(e) ==
    LET error_detail == Get(e.detail, "")
        error_code == Get(e.code, "")
    IN  IF e.code_is_str /\ Contains("INVALID_PARAMETER", error_code)
              /\ Contains("originLocationCode", error_detail)
        THEN FlightSearchResult(Nil, "Invalid origin airport code: " \o SearchOrigin
                                      \o ". Please provide a valid IATA airport code.")
        ELSE IF e.code_is_str /\ Contains("INVALID_PARAMETER", error_code)
              /\ Contains("destinationLocationCode", error_detail)
        THEN FlightSearchResult(Nil, "Invalid destination airport code: " \o SearchDestination
                                      \o ". Please provide a valid IATA airport code.")
        ELSE IF e.code_is_str /\ Contains("INVALID_PARAMETER", error_code)
              /\ Contains("departureDate", error_detail)
        THEN FlightSearchResult(Nil, "Invalid date format: " \o SearchDate
                                      \o ". Please provide the date in YYYY-MM-DD format.")
        ELSE IF e.code_is_str /\ ~Contains("INVALID_PARAMETER", error_code)
              /\ Contains("NO_FLIGHT_FOUND", error_code)
        THEN FlightSearchResult(Nil, "No flights found from " \o SearchOrigin \o " to "
                                      \o SearchDestination \o " on " \o SearchDate
                                      \o ". Try different dates or airports.")
        ELSE IF Contains("date/time is in the past", Lower(error_detail))
        THEN FlightSearchResult(Nil, "Please provide a date in the format: YYYY-MM-DD, and I will try the search again.")
        ELSE FlightSearchResult(Nil, Or(error_detail, "Failed to search for flights. Please try again."))

\* a plausible slip: the partial list is returned together with the parse error
search_flights_keep_partial(resp) ==
    IF resp.raises THEN FlightSearchResult(Nil, FlightTransportError)
    ELSE IF resp.has_errors
    THEN IF resp.errors = <<>> THEN FlightSearchResult(Nil, FlightTransportError)
         ELSE search_flights_error(resp.errors[1])
    ELSE IF ~resp.has_data
    THEN FlightSearchResult(Nil, "Unable to process flight search results. Please try again.")
    ELSE LET taken == FirstFive(resp.data)
             bad == {i \in DOMAIN taken : taken[i].shape # "ok"}
             first_bad == IF bad = {} THEN Len(taken) + 1
                          ELSE CHOOSE i \in bad : \A j \in bad : i <= j
             done == [i \in 1..(first_bad - 1) |-> Flight(taken[i])]
         IN  IF bad = {} THEN FlightSearchResult(Some(done), None)
             ELSE FlightSearchResult(Some(done), "Unable to process flight search results. Please try again.")

\* custom_tools.search_flights applied to one provider response
\*   raises      the request or response.json() raised
\*   has_errors  'errors' in response_data, errors its value
\*   has_data    'data' in response_data, data its value
search_flights(resp) ==
    IF resp.raises THEN FlightSearchResult(Nil, FlightTransportError)
    ELSE IF resp.has_errors
    THEN IF resp.errors = <<>>
         THEN FlightSearchResult(Nil, FlightTransportError)     \* errors[0] raises IndexError
         ELSE search_flights_error(resp.errors[1])
    ELSE IF ~resp.has_data
    THEN FlightSearchResult(Nil, "Unable to process flight search results. Please try again.")
    ELSE LET taken == FirstFive(resp.data)
             bad == {i \in DOMAIN taken : taken[i].shape # "ok"}
             first_bad == IF bad = {} THEN 0
                          ELSE CHOOSE i \in bad : \A j \in bad : i <= j
         IN  IF bad = {}
             THEN FlightSearchResult(Some([i \in DOMAIN taken |-> Flight(taken[i])]), None)
             ELSE IF taken[first_bad].shape = "bad_type"
             THEN FlightSearchResult(Nil, FlightTransportError)
             ELSE FlightSearchResult(Nil, "Unable to process flight search results. Please try again.")

\* provider error entries
FlightErrorEntries ==
    { [code_is_str |-> TRUE, code |-> c, detail |-> d] :
          c \in {"INVALID_PARAMETER", "NO_FLIGHT_FOUND", "", Absent},
          d \in (Details \ {"NEED GEOCODES for the end address"}) \cup {Absent} }
    \cup { [code_is_str |-> FALSE, code |-> "477", detail |-> d] :
          d \in {"", "Date/Time is in the past", "Internal provider error"} }

\* offer lists: n offers in provider order, offer i with 1 + ((i + k) % MaxSegs)
\* segments, at most one offer (at position p) not well formed
OfferLists ==
    { [i \in 1..n |-> Offer(i, 1 + ((i + k) % MaxSegs), IF i = p THEN shape ELSE "ok")] :
          n \in 0..MaxOffers, k \in 0..(MaxSegs - 1), p \in 0..MaxOffers,
          shape \in OfferShapes \ {"ok"} }

FlightResponse(raises, has_errors, errors, has_data, data) ==
    [ raises |-> raises, has_errors |-> has_errors, errors |-> errors,
      has_data |-> has_data, data |-> data ]

\* provider responses to the flight-offer search
FlightResponses ==
    { FlightResponse(TRUE, FALSE, <<>>, FALSE, <<>>),
      FlightResponse(FALSE, TRUE, <<>>, FALSE, <<>>),
      FlightResponse(FALSE, FALSE, <<>>, FALSE, <<>>) }
    \cup { FlightResponse(FALSE, TRUE, <<e>>, FALSE, <<>>) : e \in FlightErrorEntries }
    \cup { FlightResponse(FALSE, TRUE, <<e>>, TRUE, <<Offer(1, 1, "ok")>>) :
               e \in {[code_is_str |-> TRUE, code |-> "", detail |-> ""]} }
    \cup { FlightResponse(FALSE, FALSE, <<>>, TRUE, data) : data \in OfferLists }

----------------------------------------------------------------------------
(* book_flight *)

\* models.BookingResult
BookingResult(booking_reference, status, error, price, flight_details, traveler_info) ==
    [ booking_reference |-> booking_reference, status |-> status, error |-> error,
      price |-> price, flight_details |-> flight_details, traveler_info |-> traveler_info ]

ErrorResult(error) == BookingResult(None, "error", error, None, Nil, Nil)

ScheduleChangeError ==
    "This flight's schedule has recently changed or has been booked out. Please search with a later date. I apologize for the inconvenience."

BookFlightExceptionError ==
    "I encountered an issue while trying to book your flight. This could be due to temporary availability issues. Please try searching for flights again, and I'll help you complete the booking. Also could be the access token issue, try refreshing it. Sorry for the inconvenience!"

\* models.Traveler with its defaults
DefaultTraveler == [id |-> "1", dateOfBirth |-> "2000-01-16", gender |-> "MALE"]

\* models.BookFlightParams values the dispatcher can construct
BookFlightParamsSet ==
    { [ flight_id |-> id, origin |-> SearchOrigin, destination |-> SearchDestination,
        departure_date |-> SearchDate, traveler |-> DefaultTraveler ] : id \in {"1", "2"} }

\* a provider call that book_flight did not make
NotCalled == [called |-> FALSE]

\* responses to the re-search: ids are the offer ids in provider order, Absent
\* for an offer without an 'id' key
SearchCall(raises, has_errors, errors, ids) ==
    [ called |-> TRUE, raises |-> raises, has_errors |-> has_errors,
      errors |-> errors, ids |-> ids ]

BookDetails ==
    {Absent, "", "SCHEDULE CHANGE DETECTED for segment 1", "Internal provider error"}

BookErrorLists == {<<>>} \cup { <<[detail |-> d]>> : d \in BookDetails }

BookSearchResponses ==
    { SearchCall(TRUE, FALSE, <<>>, <<>>) }
    \cup { SearchCall(FALSE, TRUE, errs, <<>>) : errs \in BookErrorLists }
    \cup { SearchCall(FALSE, FALSE, <<>>, ids) :
               ids \in {<<>>, <<"1">>, <<"3", "1">>, <<Absent, "1">>, <<"1", Absent>>} }

\* responses to the price confirmation: has_offer says whether
\* pricing_data['data']['flightOffers'][0] exists
PricingCall(raises, has_errors, errors, has_offer) ==
    [ called |-> TRUE, raises |-> raises, has_errors |-> has_errors,
      errors |-> errors, has_offer |-> has_offer ]

PricingResponses ==
    { PricingCall(TRUE, FALSE, <<>>, FALSE) }
    \cup { PricingCall(FALSE, TRUE, errs, FALSE) : errs \in BookErrorLists }
    \cup { PricingCall(FALSE, FALSE, <<>>, has_offer) : has_offer \in BOOLEAN }

\* responses to the order creation: shape of booking_data['data']
\*   "ok"           an order with id, price and nsegs segments
\*   "no_id"        an order without an 'id' key
\*   "missing_key"  a key the extraction reads is missing (KeyError)
\*   "no_segments"  the itinerary has an empty segment list (IndexError)
\*   "bad_type"     price.total is not a string (ValidationError)
OrderShapes == {"ok", "no_id", "missing_key", "no_segments", "bad_type"}

OrderCall(raises, has_errors, errors, shape, nsegs) ==
    [ called |-> TRUE, raises |-> raises, has_errors |-> has_errors,
      errors |-> errors, shape |-> shape, nsegs |-> nsegs ]

OrderResponses ==
    { OrderCall(TRUE, FALSE, <<>>, "ok", 1) }
    \cup { OrderCall(FALSE, TRUE, errs, "ok", 1) : errs \in BookErrorLists }
    \cup { OrderCall(FALSE, FALSE, <<>>, shape, IF shape = "no_segments" THEN 0 ELSE n) :
               shape \in OrderShapes, n \in 1..MaxSegs }

\* the loop `for offer in search_data.get('data', [])`: "found", "not_found",
\* or "raise" when an offer before the match has no 'id'
RECURSIVE FindOffer(_, _)
FindOffer(ids, flight_id) ==
    IF ids = <<>> THEN "not_found"
    ELSE IF Head(ids) = Absent THEN "raise"
    ELSE IF Head(ids) = flight_id THEN "found"
    ELSE FindOffer(Tail(ids), flight_id)

\* step 1 of book_flight came through: the pricing call is made
ReachesPricing(params, sr) ==
    /\ ~sr.raises /\ ~sr.has_errors
    /\ FindOffer(sr.ids, params.flight_id) = "found"

\* step 2 of book_flight came through: the order call is made
ReachesOrder(params, sr, pr) ==
    /\ ReachesPricing(params, sr)
    /\ pr.called /\ ~pr.raises /\ ~pr.has_errors /\ pr.has_offer

\* the flight_details summary extracted from a confirmed order
FlightDetails(nsegs) ==
    [ segments |-> [k \in 1..nsegs |->
                      [ flight_number |-> "BA" \o Digit(k),
                        departure |-> "T" \o Digit(k), arrival |-> "T" \o Digit(k + 1),
                        origin |-> "LAX", destination |-> "JFK" ]],
      total_segments |-> nsegs,
      origin |-> "LAX", destination |-> "JFK",
      departure |-> "T1", arrival |-> "T" \o Digit(nsegs + 1) ]

\* a plausible slip: `booking_data['data']['id']` instead of .get('id', 'Unknown')
book_flight_order_requires_id(params, ord) ==
    IF ord.raises THEN ErrorResult(BookFlightExceptionError)
    ELSE IF ord.has_errors
    THEN IF ord.errors = <<>> THEN ErrorResult(BookFlightExceptionError)
         ELSE IF Contains("schedule change detected", Lower(Get(ord.errors[1].detail, "")))
         THEN ErrorResult(ScheduleChangeError)
         ELSE ErrorResult(Get(ord.errors[1].detail, "Booking failed"))
    ELSE IF ord.shape \in {"missing_key", "no_segments", "bad_type", "no_id"}
    THEN ErrorResult(BookFlightExceptionError)
    ELSE BookingResult("ORDER1", "confirmed", None, "100.00",
                       Some(FlightDetails(ord.nsegs)), Some(params.traveler))

\* a plausible slip: the `errors` key of the order response is not looked at
book_flight_order_ignores_errors(params, ord) ==
    IF ord.raises THEN ErrorResult(BookFlightExceptionError)
    ELSE IF ord.shape \in {"missing_key", "no_segments", "bad_type"}
    THEN ErrorResult(BookFlightExceptionError)
    ELSE BookingResult(IF ord.shape = "no_id" THEN "Unknown" ELSE "ORDER1",
                       "confirmed", None, "100.00",
                       Some(FlightDetails(ord.nsegs)), Some(params.traveler))

\* the error branches and the result of step 3
book_flight_order(params, ord) ==
    IF ord.raises THEN ErrorResult(BookFlightExceptionError)
    ELSE IF ord.has_errors
    THEN IF ord.errors = <<>> THEN ErrorResult(BookFlightExceptionError)
         ELSE IF Contains("schedule change detected", Lower(Get(ord.errors[1].detail, "")))
         THEN ErrorResult(ScheduleChangeError)
         ELSE ErrorResult(Get(ord.errors[1].detail, "Booking failed"))
    ELSE IF ord.shape \in {"missing_key", "no_segments", "bad_type"}
    THEN ErrorResult(BookFlightExceptionError)
    ELSE BookingResult(IF ord.shape = "no_id" THEN "Unknown" ELSE "ORDER1",
                       "confirmed", None, "100.00",
                       Some(FlightDetails(ord.nsegs)), Some(params.traveler))

\* custom_tools.book_flight up to the store: the result it builds from the
\* three provider responses (NotCalled for a call it does not reach)
book_flight_result(params, sr, pr, ord) ==
    IF sr.raises THEN ErrorResult(BookFlightExceptionError)
    ELSE IF sr.has_errors
    THEN IF sr.errors = <<>>
         THEN ErrorResult(BookFlightExceptionError)            \* errors[0] raises IndexError
         ELSE IF Contains("schedule change detected", Lower(Get(sr.errors[1].detail, "")))
         THEN ErrorResult(ScheduleChangeError)
         ELSE ErrorResult(Or(Get(sr.errors[1].detail, ""), "No flights found matching the criteria"))
    ELSE IF FindOffer(sr.ids, params.flight_id) = "raise"
    THEN ErrorResult(BookFlightExceptionError)
    ELSE IF FindOffer(sr.ids, params.flight_id) = "not_found"
    THEN ErrorResult("Could not find the selected flight. Please search again.")
    ELSE IF pr.raises THEN ErrorResult(BookFlightExceptionError)
    ELSE IF pr.has_errors
    THEN IF pr.errors = <<>>
         THEN ErrorResult(BookFlightExceptionError)
         ELSE ErrorResult(Get(pr.errors[1].detail, "Price confirmation failed"))
    ELSE IF ~pr.has_offer THEN ErrorResult(BookFlightExceptionError)
    ELSE book_flight_order(params, ord)

----------------------------------------------------------------------------
(* search_hotels *)

\* models.HotelSearchResult
HotelSearchResult(hotels, error) == [hotels |-> hotels, error |-> error]

HotelTransportError ==
    "I encountered an issue while trying to search for hotels. This could be due to temporary availability issues. Please try searching for hotels again, and I'll help you complete the booking. Also could be the access token issue, try refreshing it. Sorry for the inconvenience!"

\* decimal digits of a natural number
RECURSIVE IntStr(_)
IntStr(n) == IF n < 10 THEN Digit(n) ELSE IntStr(n \div 10) \o Digit(n % 10)

\* Python float(s) on the price strings a provider sends: amounts are held
\* in cents; kind is "num", "inf", "nan", or "error" for ValueError
ParseFloat(s) ==
    CASE s = "100.00" -> [kind |-> "num", cents |-> 10000]
      [] s = "85.50" -> [kind |-> "num", cents |-> 8550]
      [] s = "85.5" -> [kind |-> "num", cents |-> 8550]
      [] s = "100.0" -> [kind |-> "num", cents |-> 10000]
      [] s = "99.0" -> [kind |-> "num", cents |-> 9900]
      [] s = "120.25" -> [kind |-> "num", cents |-> 12025]
      [] s = "99" -> [kind |-> "num", cents |-> 9900]
      [] s = "inf" -> [kind |-> "inf", cents |-> 0]
      [] s = "nan" -> [kind |-> "nan", cents |-> 0]
      [] OTHER -> [kind |-> "error", cents |-> 0]

\* Python str(x) of a float with at most two decimals, held in cents
FloatStr(cents) ==
    IntStr(cents \div 100) \o "." \o
        (IF cents % 100 = 0 THEN "0"
         ELSE IF cents % 10 = 0 THEN Digit((cents % 100) \div 10)
         ELSE Pad2(cents % 100))

\* price strings of a room offer; Absent when price.total is missing
RoomTotals == {"100.00", "85.50", "120.25", "99", "N/A", "", "nan", Absent}

\* one room offer of a hotel: total_is_str is FALSE when the JSON value is a number
RoomOffer(total, total_is_str, currency) ==
    [total |-> total, total_is_str |-> total_is_str, currency |-> currency]

\* models.RoomDetails built from one room offer (nested fields the model
\* does not vary take the defaults of the code)
RoomDetails(offer) ==
    [ type |-> "Standard Room", description |-> "", bedType |-> "Unknown",
      price |-> [amount |-> Get(offer.total, "N/A"), currency |-> Get(offer.currency, "USD")],
      refundable |-> TRUE, cancellationPolicy |-> "Contact hotel for policy" ]

\* a plausible slip: the first total that parses is kept, later ones are not compared
RECURSIVE CheapestFirst(_, _)
CheapestFirst(offers, best) ==
    IF offers = <<>> THEN best
    ELSE LET offer == Head(offers)
             parsed == ParseFloat(Get(offer.total, "inf"))
             better == parsed.kind = "num" /\ best.price = -1
         IN  CheapestFirst(Tail(offers),
                           IF better
                           THEN [price |-> parsed.cents, currency |-> Get(offer.currency, "USD")]
                           ELSE best)

\* the cheapest-price loop: state is [price (cents, or -1 for inf), currency]
RECURSIVE Cheapest(_, _)
Cheapest(offers, best) ==
    IF offers = <<>> THEN best
    ELSE LET offer == Head(offers)
             parsed == ParseFloat(Get(offer.total, "inf"))
             better == parsed.kind = "num" /\ (best.price = -1 \/ parsed.cents < best.price)
         IN  Cheapest(Tail(offers),
                      IF better
                      THEN [price |-> parsed.cents, currency |-> Get(offer.currency, "USD")]
                      ELSE best)

\* models.HotelBasicInfo built from one entry of offers_data['data']
HotelBasicInfo(hotel_offer) ==
    LET best == Cheapest(hotel_offer.offers, [price |-> -1, currency |-> "USD"])
    IN  [ hotelId |-> hotel_offer.hotelId,
          name |-> "Unknown Hotel", rating |-> "N/A",
          description |-> "No description available",
          rooms |-> [k \in DOMAIN hotel_offer.offers |-> RoomDetails(hotel_offer.offers[k])],
          price |-> [ amount |-> IF best.price # -1 THEN FloatStr(best.price) ELSE "N/A",
                      currency |-> best.currency ] ]

\* an entry raises while it is processed: 'hotel' or 'hotelId' missing
\* (KeyError) or a room price that is not a string (ValidationError)
HotelOfferRaises(hotel_offer) ==
    \/ hotel_offer.shape # "ok"
    \/ \E k \in DOMAIN hotel_offer.offers : ~hotel_offer.offers[k].total_is_str

\* custom_tools.search_hotels applied to the two provider responses
\*   hr  city lookup: raises, has_errors, errors, hotel_ids (Absent = no 'hotelId')
\*   offr batched offer lookup: called, raises, has_errors, has_data, data
search_hotels(hr, offr) ==
    IF hr.raises THEN HotelSearchResult(Nil, HotelTransportError)
    ELSE IF hr.has_errors
    THEN IF hr.errors = <<>> THEN HotelSearchResult(Nil, HotelTransportError)
         ELSE HotelSearchResult(Nil, Get(hr.errors[1].detail, "Hotel search failed"))
    ELSE LET hotel_ids == FirstFive(hr.hotel_ids)
         IN  IF hotel_ids = <<>>
             THEN HotelSearchResult(Nil, "No hotels found in the specified location")
             ELSE IF \E i \in DOMAIN hotel_ids : hotel_ids[i] = Absent
             THEN HotelSearchResult(Nil, HotelTransportError)      \* ','.join raises TypeError
             ELSE IF offr.raises THEN HotelSearchResult(Nil, HotelTransportError)
             ELSE IF ~offr.has_data THEN HotelSearchResult(Some(<<>>), None)
             ELSE IF \E i \in DOMAIN offr.data : HotelOfferRaises(offr.data[i])
             THEN HotelSearchResult(Nil, HotelTransportError)
             ELSE HotelSearchResult(Some([i \in DOMAIN offr.data |-> HotelBasicInfo(offr.data[i])]), None)

\* the offer lookup is made only when the city lookup gave usable hotel ids
ReachesOffers(hr) ==
    /\ ~hr.raises /\ ~hr.has_errors
    /\ hr.hotel_ids # <<>>
    /\ \A i \in DOMAIN FirstFive(hr.hotel_ids) : hr.hotel_ids[i] # Absent

HotelsCall(raises, has_errors, errors, hotel_ids) ==
    [ called |-> TRUE, raises |-> raises, has_errors |-> has_errors,
      errors |-> errors, hotel_ids |-> hotel_ids ]

OffersCall(raises, has_errors, errors, has_data, data) ==
    [ called |-> TRUE, raises |-> raises, has_errors |-> has_errors,
      errors |-> errors, has_data |-> has_data, data |-> data ]

HotelOffer(hotelId, shape, offers) == [hotelId |-> hotelId, shape |-> shape, offers |-> offers]

\* room offers of one hotel: every list of at most MaxRooms offers
RoomOffers ==
    { RoomOffer(t, TRUE, IF t = "85.50" THEN "EUR" ELSE "USD") : t \in RoomTotals }
    \cup { RoomOffer("99", FALSE, "USD") }

RoomOfferLists == UNION { [1..n -> RoomOffers] : n \in 0..MaxRooms }

\* provider responses to the city lookup
HotelsResponses ==
    { HotelsCall(TRUE, FALSE, <<>>, <<>>),
      HotelsCall(FALSE, TRUE, <<>>, <<>>),
      HotelsCall(FALSE, TRUE, <<[detail |-> Absent]>>, <<>>),
      HotelsCall(FALSE, TRUE, <<[detail |-> ""]>>, <<>>),
      HotelsCall(FALSE, TRUE, <<[detail |-> "Internal provider error"]>>, <<>>),
      HotelsCall(FALSE, FALSE, <<>>, <<>>),
      HotelsCall(FALSE, FALSE, <<>>, <<Absent>>),
      HotelsCall(FALSE, FALSE, <<>>, <<"H1", "H2">>) }

\* provider responses to the offer lookup
OffersResponses ==
    { OffersCall(TRUE, FALSE, <<>>, FALSE, <<>>),
      OffersCall(FALSE, TRUE, <<[detail |-> "Internal provider error"]>>, FALSE, <<>>),
      OffersCall(FALSE, FALSE, <<>>, FALSE, <<>>),
      OffersCall(FALSE, FALSE, <<>>, TRUE, <<HotelOffer("H1", "no_hotel", <<>>)>>) }
    \cup { OffersCall(FALSE, FALSE, <<>>, TRUE, <<HotelOffer("H1", "ok", rooms)>>) :
               rooms \in RoomOfferLists }
    \cup { OffersCall(FALSE, FALSE, <<>>, TRUE,
                      << HotelOffer("H1", "ok", <<RoomOffer("120.25", TRUE, "USD")>>),
                         HotelOffer("H2", "ok", rooms) >>) :
               rooms \in { r \in RoomOfferLists : Len(r) <= 1 } }

----------------------------------------------------------------------------
(* search_transfers *)

\* models.TransferSearchResult
TransferSearchResult(transfers, error) == [transfers |-> transfers, error |-> error]

TransferTransportError ==
    "I encountered an issue while trying to search for transfers. This could be due to temporary availability issues. Please try searching for transfers again, and I'll help you complete the booking. Also could be the access token issue, try refreshing it. Sorry for the inconvenience!"

\* str(end_time - start_time) for a difference of `minutes` within a day
TimedeltaStr(minutes) ==
    IF minutes >= 0
    THEN IntStr(minutes \div 60) \o ":" \o Pad2(minutes % 60) \o ":00"
    ELSE "-1 day, " \o IntStr((1440 + minutes) \div 60) \o ":" \o Pad2((1440 + minutes) % 60) \o ":00"

\* a provider transfer offer: start and end in minutes of the day; shape
\* "missing_key" (KeyError) or "bad_date" (fromisoformat raises ValueError)
TransferOffer(id, start, end, shape) == [id |-> id, start |-> start, end |-> end, shape |-> shape]

\* models.TransferOption built from one offer
TransferOption(offer) ==
    [ id |-> offer.id,
      duration |-> TimedeltaStr(offer.end - offer.start),
      price |-> [amount |-> "80.00", currency |-> "USD"],
      vehicle |-> [type |-> "SDN", description |-> "Sedan"],
      provider |-> [name |-> "Cabs", code |-> "CAB"] ]

\* custom_tools.search_transfers applied to one provider response
search_transfers(resp) ==
    IF resp.raises THEN TransferSearchResult(Nil, TransferTransportError)
    ELSE IF resp.has_errors
    THEN IF resp.errors = <<>> THEN TransferSearchResult(Nil, TransferTransportError)
         ELSE IF Contains("NEED GEOCODES", Get(resp.errors[1].detail, ""))
         THEN TransferSearchResult(Nil, "GEOCODES_REQUIRED")
         ELSE TransferSearchResult(Nil, Or(Get(resp.errors[1].detail, ""), "Transfer search failed"))
    ELSE IF \E i \in DOMAIN resp.data : resp.data[i].shape # "ok"
    THEN TransferSearchResult(Nil, TransferTransportError)
    ELSE TransferSearchResult(Some([i \in DOMAIN resp.data |-> TransferOption(resp.data[i])]), None)

TransferResponse(raises, has_errors, errors, data) ==
    [raises |-> raises, has_errors |-> has_errors, errors |-> errors, data |-> data]

----------------------------------------------------------------------------
(* book_transfer and book_hotel: no provider call *)

\* models.TransferBookingParams values the dispatcher can construct
TransferBookingParamsSet ==
    { [ transfer_id |-> "XFER1", start_location |-> "JFK", end_location |-> "Hotel One",
        start_time |-> "2026-11-05T10:00:00", passengers |-> 1,
        price |-> [amount |-> "80.00", currency |-> "USD"],
        vehicle_type |-> "SDN", provider_name |-> "Cabs" ] }

\* models.TransferBookingResult
TransferBookingResult(booking_id, status, error, transfer_details, price) ==
    [ booking_id |-> booking_id, status |-> status, error |-> error,
      transfer_details |-> transfer_details, price |-> price ]

\* a plausible slip: the booking id is made from the date only
book_transfer_result_date_only(params, t0) ==
    TransferBookingResult(
        "TR-" \o StampYmd(t0),
        "confirmed",
        None,
        Some([ transfer_id |-> params.transfer_id,
               start_location |-> params.start_location,
               end_location |-> params.end_location,
               start_time |-> params.start_time,
               vehicle_type |-> params.vehicle_type,
               provider |-> params.provider_name ]),
        Some(params.price))

\* custom_tools.book_transfer up to the store: the result it builds; t0 is
\* the clock read that makes the booking id
book_transfer_result(params, t0) ==
    TransferBookingResult(
        "TR-" \o StampYmdHMS(t0),
        "confirmed",
        None,
        Some([ transfer_id |-> params.transfer_id,
               start_location |-> params.start_location,
               end_location |-> params.end_location,
               start_time |-> params.start_time,
               vehicle_type |-> params.vehicle_type,
               provider |-> params.provider_name ]),
        Some(params.price))

\* models.HotelBookingParams values the dispatcher can construct
HotelBookingParamsSet ==
    { [ hotel_name |-> "Hotel One", address |-> [cityName |-> "New York"],
        check_in |-> "2026-11-05", check_out |-> "2026-11-07",
        price |-> [amount |-> "300.00", currency |-> "USD"] ] }

\* models.HotelBookingResult
HotelBookingResult(status, error, hotel_name, check_in, check_out, price) ==
    [ booking_id |-> None, status |-> status, error |-> error,
      hotel_name |-> hotel_name, check_in |-> check_in, check_out |-> check_out,
      room_type |-> None, price |-> price, guest_info |-> Nil ]

\* custom_tools.book_hotel up to the store: the result it builds
book_hotel_result(params) ==
    HotelBookingResult("confirmed", None, params.hotel_name, params.check_in,
                       params.check_out, Some(params.price))

----------------------------------------------------------------------------
(* The tool operations as steps over the shared ledger and the clock *)

NoOp == [op |-> "none"]

\* what a read of datetime.now() can return when the previous read returned
\* t: the same instant or the next one
ReadsAfter(t) == {t, t + 1} \cap Times

\* number of bookings stored under trip_id
BookingsUnder(storage, trip_id) ==
    IF HasTrip(storage, trip_id) THEN Len(storage[TripIndex(storage, trip_id)].bookings) ELSE 0

\* the trip ids whose booking list is longer in `new` than in `old`
GrownTrips(old, new) ==
    { new[i].trip_id : i \in { k \in DOMAIN new :
          Len(new[k].bookings) > BookingsUnder(old, new[k].trip_id) } }

\* history entry of one append: the instant of the write and the trip that grew
LogAppend(t, booking_type, old, new) ==
    Append(ledger_log,
           [ at |-> t, booking_type |-> booking_type,
             trip_id |-> IF GrownTrips(old, new) = {} THEN None
                         ELSE CHOOSE id \in GrownTrips(old, new) : TRUE ])

\* custom_tools.book_flight on the provider responses of SR, PR, OR: the
\* three provider calls in order, then the store (two clock reads) when the
\* result is confirmed; cap bounds the ledger size explored
ToolBookFlight(SR, PR, OR, cap) ==
    /\ \E params \in BookFlightParamsSet, sr \in SR :
       \E pr \in (IF ReachesPricing(params, sr) THEN PR ELSE {NotCalled}) :
       \E ord \in (IF ReachesOrder(params, sr, pr) THEN OR ELSE {NotCalled}) :
          LET result == book_flight_result(params, sr, pr, ord)
          IN  IF result.status = "confirmed"
              THEN \E t1 \in ReadsAfter(now) : \E t2 \in ReadsAfter(t1) :
                      /\ CountBookings(trip_storage) < cap
                      /\ trip_storage' = store_booking(trip_storage, "flight", result, t1, t2)
                      /\ ledger_log' = LogAppend(t2, "flight", trip_storage, trip_storage')
                      /\ now' = t2
                      /\ last' = [op |-> "book_flight", params |-> params,
                                  search |-> sr, pricing |-> pr, order |-> ord,
                                  reads |-> <<t1, t2>>, ret |-> result]
              ELSE /\ UNCHANGED <<trip_storage, ledger_log, now>>
                   /\ last' = [op |-> "book_flight", params |-> params,
                               search |-> sr, pricing |-> pr, order |-> ord,
                               reads |-> <<>>, ret |-> result]

\* custom_tools.book_transfer: three clock reads t0 <= t1 <= t2
ToolBookTransfer ==
    /\ CountBookings(trip_storage) < MaxBookings
    /\ \E params \in TransferBookingParamsSet :
       \E t0 \in ReadsAfter(now) : \E t1 \in ReadsAfter(t0) : \E t2 \in ReadsAfter(t1) :
          LET result == book_transfer_result(params, t0)
          IN  /\ IF result.status = "confirmed"
                 THEN /\ trip_storage' = store_booking(trip_storage, "transfer", result, t1, t2)
                      /\ ledger_log' = LogAppend(t2, "transfer", trip_storage, trip_storage')
                 ELSE UNCHANGED <<trip_storage, ledger_log>>
              /\ last' = [op |-> "book_transfer", params |-> params,
                          reads |-> <<t0, t1, t2>>, ret |-> result]
              /\ now' = t2

\* custom_tools.book_hotel: two clock reads (inside store_booking)
ToolBookHotel ==
    /\ CountBookings(trip_storage) < MaxBookings
    /\ \E params \in HotelBookingParamsSet :
       \E t1 \in ReadsAfter(now) : \E t2 \in ReadsAfter(t1) :
          LET result == book_hotel_result(params)
          IN  /\ IF result.status = "confirmed"
                 THEN /\ trip_storage' = store_booking(trip_storage, "hotel", result, t1, t2)
                      /\ ledger_log' = LogAppend(t2, "hotel", trip_storage, trip_storage')
                 ELSE UNCHANGED <<trip_storage, ledger_log>>
              /\ last' = [op |-> "book_hotel", params |-> params,
                          reads |-> <<t1, t2>>, ret |-> result]
              /\ now' = t2

\* custom_tools.get_trip_details for the trip ids of the set Ids
ToolGetTripDetails(Ids) ==
    /\ \E trip_id \in Ids :
          last' = [op |-> "get_trip_details", trip_id |-> trip_id,
                   ret |-> get_trip_details(trip_storage, trip_id)]
    /\ UNCHANGED <<trip_storage, now, ledger_log>>

\* custom_tools.search_flights on the responses of the set R
ToolSearchFlights(R) ==
    /\ \E resp \in R :
          last' = [op |-> "search_flights", resp |-> resp, ret |-> search_flights(resp)]
    /\ UNCHANGED <<trip_storage, now, ledger_log>>

\* custom_tools.search_hotels on the provider responses of HR and OFR
ToolSearchHotels(HR, OFR) ==
    /\ \E hr \in HR :
       \E offr \in (IF ReachesOffers(hr) THEN OFR ELSE {NotCalled}) :
          last' = [op |-> "search_hotels", hotels |-> hr, offers |-> offr,
                   ret |-> search_hotels(hr, offr)]
    /\ UNCHANGED <<trip_storage, now, ledger_log>>

\* custom_tools.search_transfers on the responses of the set R
ToolSearchTransfers(R) ==
    /\ \E resp \in R :
          last' = [op |-> "search_transfers", resp |-> resp, ret |-> search_transfers(resp)]
    /\ UNCHANGED <<trip_storage, now, ledger_log>>

----------------------------------------------------------------------------
(* The tool operations called directly, with no connection open *)

Conns == {"c1", "c2"}

InitChatVars ==
    /\ active_connections = <<>>
    /\ pc = [c \in Conns |-> "closed"]
    /\ messages = [c \in Conns |-> <<>>]
    /\ todo = [c \in Conns |-> <<>>]
    /\ trace = [c \in Conns |-> <<>>]
    /\ exchanges = [c \in Conns |-> 0]

InitLedger ==
    /\ trip_storage = <<>>
    /\ now = 1
    /\ last = NoOp
    /\ ledger_log = <<>>
    /\ InitChatVars

\* time passes between operations
Tick ==
    /\ now < Len(Instants)
    /\ now' = now + 1
    /\ UNCHANGED <<trip_storage, last, ledger_log>>
    /\ UNCHANGED chatVars

\* trip ids a caller can ask for: omitted, empty, each day's id, an id never used
TripIdArgs ==
    {None, "", "TRIP_19990101"} \cup {"TRIP_" \o StampYmd(t) : t \in Times}

\* one response of each kind, for the runs that are about the ledger
FlightResponsesSample ==
    { FlightResponse(TRUE, FALSE, <<>>, FALSE, <<>>),
      FlightResponse(FALSE, TRUE, <<[code_is_str |-> TRUE, code |-> "NO_FLIGHT_FOUND", detail |-> ""]>>, FALSE, <<>>),
      FlightResponse(FALSE, FALSE, <<>>, TRUE, <<Offer(1, 1, "ok"), Offer(2, 2, "ok")>>),
      FlightResponse(FALSE, FALSE, <<>>, TRUE, <<Offer(1, 1, "missing_key")>>) }

BookSearchSample ==
    { SearchCall(FALSE, TRUE, <<[detail |-> "Internal provider error"]>>, <<>>),
      SearchCall(FALSE, FALSE, <<>>, <<"1">>) }

PricingSample ==
    { PricingCall(FALSE, TRUE, <<[detail |-> ""]>>, FALSE),
      PricingCall(FALSE, FALSE, <<>>, TRUE) }

OrderSample ==
    { OrderCall(TRUE, FALSE, <<>>, "ok", 1),
      OrderCall(FALSE, FALSE, <<>>, "ok", 1) }

HotelsSample ==
    { HotelsCall(FALSE, TRUE, <<[detail |-> "Internal provider error"]>>, <<>>),
      HotelsCall(FALSE, FALSE, <<>>, <<"H1", "H2">>) }

OffersSample ==
    { OffersCall(FALSE, TRUE, <<[detail |-> "Internal provider error"]>>, FALSE, <<>>),
      OffersCall(FALSE, FALSE, <<>>, TRUE,
                 << HotelOffer("H1", "ok", <<RoomOffer("100.00", TRUE, "USD"), RoomOffer("85.50", TRUE, "EUR")>>),
                    HotelOffer("H2", "ok", <<RoomOffer("N/A", TRUE, "USD")>>) >>) }

TransferResponsesSample ==
    { TransferResponse(TRUE, FALSE, <<>>, <<>>),
      TransferResponse(FALSE, TRUE, <<[detail |-> "NEED GEOCODES for the end address"]>>, <<>>),
      TransferResponse(FALSE, FALSE, <<>>, <<TransferOffer("X1", 600, 690, "ok")>>) }

BookFlightSample ==
    ToolBookFlight(BookSearchSample, PricingSample, OrderSample, MaxBookings) /\ UNCHANGED chatVars

BookTransfer == ToolBookTransfer /\ UNCHANGED chatVars

BookHotel == ToolBookHotel /\ UNCHANGED chatVars

GetTripDetails == ToolGetTripDetails(TripIdArgs) /\ UNCHANGED chatVars

SearchFlightsSample == ToolSearchFlights(FlightResponsesSample) /\ UNCHANGED chatVars

SearchHotelsSample == ToolSearchHotels(HotelsSample, OffersSample) /\ UNCHANGED chatVars

SearchTransfersSample == ToolSearchTransfers(TransferResponsesSample) /\ UNCHANGED chatVars

NextLedger ==
    \/ Tick
    \/ BookFlightSample
    \/ BookTransfer
    \/ BookHotel
    \/ GetTripDetails
    \/ SearchFlightsSample
    \/ SearchHotelsSample
    \/ SearchTransfersSample

SpecLedger == InitLedger /\ [][NextLedger]_vars

----------------------------------------------------------------------------
(* book_flight over every combination of provider responses *)

\* the reads of the clock all give the same instant in these runs
InitFlight ==
    /\ trip_storage = <<>>
    /\ now = Len(Instants)
    /\ last = NoOp
    /\ ledger_log = <<>>
    /\ InitChatVars

BookFlight ==
    ToolBookFlight(BookSearchResponses, PricingResponses, OrderResponses, MaxFlights) /\ UNCHANGED chatVars

NextFlight == BookFlight

SpecFlight == InitFlight /\ [][NextFlight]_vars

----------------------------------------------------------------------------
(* search_flights and search_hotels as functions of the provider responses *)

\* the searches read no state, so one call from the initial state stands for every call
SearchFlights ==
    /\ last = NoOp
    /\ ToolSearchFlights(FlightResponses)
    /\ UNCHANGED chatVars

SearchHotels ==
    /\ last = NoOp
    /\ ToolSearchHotels(HotelsResponses, OffersResponses)
    /\ UNCHANGED chatVars

NextSearch ==
    \/ SearchFlights
    \/ SearchHotels

SpecSearch == InitLedger /\ [][NextSearch]_vars

----------------------------------------------------------------------------
(* The conversation loop of websocket_endpoint *)

\* models.ChatMessage
ChatMessage(role, content, tool_calls, tool_call_id) ==
    [role |-> role, content |-> content, tool_calls |-> tool_calls, tool_call_id |-> tool_call_id]

SYSTEM_PROMPT == "Today's date is ... You are an AI travel agent for Brainbase Airlines."

\* one entry of data_json["messages"]: role and tool_call_id are Absent when
\* the key is missing; content is [kind, text] with kind
\*   "absent"  no content key          "str"   a string
\*   "null"    JSON null               "nested" an object with its own content key
\*   "dict"    an object without a content key
RawMessage(role, kind, text, tool_calls, tool_call_id) ==
    [ role |-> role, content |-> [kind |-> kind, text |-> text],
      tool_calls |-> tool_calls, tool_call_id |-> tool_call_id ]

\* building one ChatMessage raises: msg["role"] is missing (KeyError) or the
\* content is an object that is not unwrapped (ValidationError)
RawRaises(raw) == raw.role = Absent \/ raw.content.kind = "dict"

\* the ChatMessage built from one entry
FromRaw(raw) ==
    ChatMessage(raw.role,
                IF raw.content.kind \in {"str", "nested"} THEN raw.content.text ELSE None,
                raw.tool_calls,
                Get(raw.tool_call_id, None))

\* an inbound text: json_ok (json.loads succeeds), is_object (the value has
\* .get), raw (the value of "messages", <<>> when the key is missing)
Payload(json_ok, is_object, raw) == [json_ok |-> json_ok, is_object |-> is_object, raw |-> raw]

\* decoding and reconstruction raise, which ends websocket_endpoint
PayloadRaises(payload) ==
    \/ ~payload.json_ok
    \/ ~payload.is_object
    \/ \E i \in DOMAIN payload.raw : RawRaises(payload.raw[i])

\* a plausible slip: the system prompt is always inserted
WithSystemPromptAlways(msgs) == <<ChatMessage("system", SYSTEM_PROMPT, Nil, None)>> \o msgs

\* `if not any(msg.role == "system" ...): messages.insert(0, system prompt)`
WithSystemPrompt(msgs) ==
    IF \E i \in DOMAIN msgs : msgs[i].role = "system" THEN msgs
    ELSE <<ChatMessage("system", SYSTEM_PROMPT, Nil, None)>> \o msgs

\* the list `messages` built from a payload that does not raise
Reconstruct(payload) == WithSystemPrompt([i \in DOMAIN payload.raw |-> FromRaw(payload.raw[i])])

\* a tool call of a model response; arguments is the argument text seen
\* through json.loads: json_ok, complete (every required field present and
\* of the right type), trip_id (the trip_id field, None when missing)
ToolCall(id, type, name, json_ok, complete, trip_id) ==
    [ id |-> id, type |-> type, name |-> name,
      arguments |-> [json_ok |-> json_ok, complete |-> complete, trip_id |-> trip_id] ]

\* main.FUNCTION_MAP
FunctionNames ==
    { "search_flights", "book_flight", "search_hotels", "book_hotel",
      "get_trip_details", "search_transfers", "book_transfer" }

\* the parameter models with required fields (GetTripDetailsParams has none)
HasRequiredFields(name) == name # "get_trip_details"

\* building params or looking the handler up raises inside the per-call try
DispatchRaises(tc) ==
    \/ tc.name \notin FunctionNames
    \/ HasRequiredFields(tc.name) /\ ~tc.arguments.complete

\* a plausible slip: the error check of the result is left out
ResultHasErrorNever(result) == FALSE

\* `hasattr(function_response, 'error') and function_response.error`
ResultHasError(result) == Truthy(result.error)

\* entries of the trace of an exchange
Send(type, message) == [ev |-> "send", type |-> type, message |-> message]

ModelCall(msgs) == [ev |-> "model_call", messages |-> msgs]

\* generate_chat_response returned a response
ModelReturn == [ev |-> "model_return"]

ToolRun(tc) == [ev |-> "tool_run", id |-> tc.id, name |-> tc.name]

Ack == Send("message_received", "Processing your request...")

Browsing == Send("chat_response", "Browsing for options...")

Apology(error) ==
    Send("chat_response", "I encountered an error: " \o error \o ". Let me help you try again.")

DispatchApology ==
    Send("chat_response", "I encountered an error while processing your request. Let me help you try again.")

ErrorMessage == Send("error", "<str(e)>")

\* a response of the Chat Completion Provider: raises, or content and tool calls
ModelResponse(raises, content, tool_calls) ==
    [raises |-> raises, content |-> content, tool_calls |-> tool_calls]

\* a plausible slip: the tool message is appended without its tool_call_id
ToolCallMessagesNoId(tc, result) ==
    << ChatMessage("assistant", None,
                   Some(<<[id |-> tc.id, type |-> "function",
                           function |-> [name |-> tc.name, arguments |-> tc.arguments]]>>),
                   None),
       ChatMessage("tool", ToString(result), Nil, None) >>

\* the assistant message and the tool message appended for a handled tool call
ToolCallMessages(tc, result) ==
    << ChatMessage("assistant", None,
                   Some(<<[id |-> tc.id, type |-> "function",
                           function |-> [name |-> tc.name, arguments |-> tc.arguments]]>>),
                   None),
       ChatMessage("tool", ToString(result), Nil, tc.id) >>

\* ConnectionManager.disconnect: list.remove
RECURSIVE Remove(_, _)
Remove(list, x) ==
    IF list = <<>> THEN <<>>
    ELSE IF Head(list) = x THEN Tail(list)
    ELSE <<Head(list)>> \o Remove(Tail(list), x)

\* a plausible slip: the acknowledgment is sent after the provider was called
ReceiveTraceCallFirst(msgs) == <<ModelCall(msgs), Ack>>

\* what a processed inbound message does before it waits for the first
\* response: send the acknowledgment, then call generate_chat_response
ReceiveTrace(msgs) == <<Ack, ModelCall(msgs)>>

\* a plausible slip: the tool calls are taken from the end of the list
NextToolCallLast(calls) == calls[Len(calls)]

\* `for tool_call in response.choices[0].message.tool_calls`: the next one
NextToolCall(calls) == Head(calls)

\* provider behaviour while a conversation runs
ChatFlightResponses ==
    { FlightResponse(FALSE, TRUE, <<[code_is_str |-> TRUE, code |-> "NO_FLIGHT_FOUND", detail |-> ""]>>, FALSE, <<>>),
      FlightResponse(FALSE, FALSE, <<>>, TRUE, <<Offer(1, 1, "ok")>>) }

ChatBookSearch == { SearchCall(FALSE, FALSE, <<>>, <<"1">>) }

ChatPricing == { PricingCall(FALSE, TRUE, <<[detail |-> ""]>>, FALSE) }

ChatOrder == { OrderCall(FALSE, FALSE, <<>>, "ok", 1) }

ChatHotels == { HotelsCall(FALSE, FALSE, <<>>, <<"H1">>) }

ChatOffers ==
    { OffersCall(FALSE, FALSE, <<>>, TRUE,
                 <<HotelOffer("H1", "ok", <<RoomOffer("100.00", TRUE, "USD")>>)>>) }

ChatTransferResponses ==
    { TransferResponse(FALSE, FALSE, <<>>, <<TransferOffer("X1", 600, 690, "ok")>>) }

\* `await FUNCTION_MAP[function_name](params)`
RunHandler(tc) ==
    \/ tc.name = "search_flights" /\ ToolSearchFlights(ChatFlightResponses)
    \/ tc.name = "book_flight" /\ ToolBookFlight(ChatBookSearch, ChatPricing, ChatOrder, MaxBookings)
    \/ tc.name = "search_hotels" /\ ToolSearchHotels(ChatHotels, ChatOffers)
    \/ tc.name = "book_hotel" /\ ToolBookHotel
    \/ tc.name = "get_trip_details" /\ ToolGetTripDetails({tc.arguments.trip_id})
    \/ tc.name = "search_transfers" /\ ToolSearchTransfers(ChatTransferResponses)
    \/ tc.name = "book_transfer" /\ ToolBookTransfer

\* generate_chat_response calls the synchronous client inside the coroutine:
\* from the call to its return the event loop runs nothing else, so no step
\* of connection c happens while another connection is inside that call
LoopFree(c) == \A d \in Conns \ {c} : pc[d] \notin {"model", "followup"}

\* manager.connect
Open(c) ==
    /\ pc[c] = "closed"
    /\ LoopFree(c)
    /\ active_connections' = Append(active_connections, c)
    /\ pc' = [pc EXCEPT ![c] = "idle"]
    /\ UNCHANGED <<messages, todo, trace, exchanges>>
    /\ UNCHANGED toolVars

\* receive_text raises WebSocketDisconnect: manager.disconnect, the loop ends
Disconnect(c) ==
    /\ pc[c] = "idle"
    /\ LoopFree(c)
    /\ active_connections' = Remove(active_connections, c)
    /\ pc' = [pc EXCEPT ![c] = "disconnected"]
    /\ UNCHANGED <<messages, todo, trace, exchanges>>
    /\ UNCHANGED toolVars

\* an inbound text arrives: decode, rebuild the messages, add the system
\* prompt, acknowledge, call the Chat Completion Provider.  An exception
\* before the inner try leaves websocket_endpoint.
Receive(c, payloads) ==
    /\ pc[c] = "idle"
    /\ LoopFree(c)
    /\ exchanges[c] < MaxExchanges
    /\ \E payload \in payloads :
          IF PayloadRaises(payload)
          THEN /\ pc' = [pc EXCEPT ![c] = "crashed"]
               /\ messages' = [messages EXCEPT ![c] = <<>>]
               /\ trace' = [trace EXCEPT ![c] = <<>>]
          ELSE /\ pc' = [pc EXCEPT ![c] = "model"]
               /\ messages' = [messages EXCEPT ![c] = Reconstruct(payload)]
               /\ trace' = [trace EXCEPT ![c] = ReceiveTrace(Reconstruct(payload))]
    /\ todo' = [todo EXCEPT ![c] = <<>>]
    /\ exchanges' = [exchanges EXCEPT ![c] = @ + 1]
    /\ UNCHANGED active_connections
    /\ UNCHANGED toolVars

BookingCalls(tool_calls) ==
    Cardinality({i \in DOMAIN tool_calls : tool_calls[i].name \in {"book_hotel", "book_transfer"}})

\* the first response of the Chat Completion Provider comes back
ModelReply(c, responses) ==
    /\ pc[c] = "model"
    /\ \E r \in responses :
          /\ CountBookings(trip_storage) + BookingCalls(r.tool_calls) <= MaxBookings
          /\ IF r.raises
             THEN /\ trace' = [trace EXCEPT ![c] = Append(@, ErrorMessage)]
                  /\ todo' = [todo EXCEPT ![c] = <<>>]
                  /\ pc' = [pc EXCEPT ![c] = "idle"]
             ELSE /\ trace' = [trace EXCEPT ![c] = @ \o <<ModelReturn, Send("chat_response", r.content)>>]
                  /\ todo' = [todo EXCEPT ![c] = r.tool_calls]
                  /\ pc' = [pc EXCEPT ![c] = IF r.tool_calls # <<>> THEN "tools" ELSE "idle"]
    /\ UNCHANGED <<active_connections, messages, exchanges>>
    /\ UNCHANGED toolVars

\* one iteration of `for tool_call in response.choices[0].message.tool_calls`
\* up to the follow-up call of the Chat Completion Provider
Dispatch(c) ==
    /\ pc[c] = "tools"
    /\ LoopFree(c)
    /\ LET tc == NextToolCall(todo[c])
           rest == Tail(todo[c])
           after == IF rest = <<>> THEN "idle" ELSE "tools"
       IN  \/ \* not a function call: nothing is done
              /\ tc.type # "function"
              /\ todo' = [todo EXCEPT ![c] = rest]
              /\ pc' = [pc EXCEPT ![c] = after]
              /\ UNCHANGED <<messages, trace>>
              /\ UNCHANGED toolVars
           \/ \* json.loads of the arguments raises outside the per-call try
              /\ tc.type = "function"
              /\ ~tc.arguments.json_ok
              /\ trace' = [trace EXCEPT ![c] = Append(@, ErrorMessage)]
              /\ todo' = [todo EXCEPT ![c] = <<>>]
              /\ pc' = [pc EXCEPT ![c] = "idle"]
              /\ UNCHANGED messages
              /\ UNCHANGED toolVars
           \/ \* unknown name or params that cannot be built: per-call except
              /\ tc.type = "function"
              /\ tc.arguments.json_ok
              /\ DispatchRaises(tc)
              /\ trace' = [trace EXCEPT ![c] = Append(@, DispatchApology)]
              /\ todo' = [todo EXCEPT ![c] = rest]
              /\ pc' = [pc EXCEPT ![c] = after]
              /\ UNCHANGED messages
              /\ UNCHANGED toolVars
           \/ \* the handler runs
              /\ tc.type = "function"
              /\ tc.arguments.json_ok
              /\ ~DispatchRaises(tc)
              /\ RunHandler(tc)
              /\ todo' = [todo EXCEPT ![c] = rest]
              /\ IF ResultHasError(last'.ret)
                 THEN /\ trace' = [trace EXCEPT ![c] =
                             @ \o <<ToolRun(tc), Browsing, Apology(last'.ret.error)>>]
                      /\ pc' = [pc EXCEPT ![c] = after]
                      /\ UNCHANGED messages
                 ELSE /\ messages' = [messages EXCEPT ![c] = @ \o ToolCallMessages(tc, last'.ret)]
                      /\ trace' = [trace EXCEPT ![c] =
                             @ \o <<ToolRun(tc), Browsing, ModelCall(messages'[c])>>]
                      /\ pc' = [pc EXCEPT ![c] = "followup"]
    /\ UNCHANGED <<active_connections, exchanges>>

\* a plausible slip: the tool calls of a follow-up response join the queue
FollowUpTakesNewCalls(c, responses) ==
    /\ pc[c] = "followup"
    /\ \E r \in responses :
          IF r.raises
          THEN /\ trace' = [trace EXCEPT ![c] = Append(@, ErrorMessage)]
               /\ todo' = [todo EXCEPT ![c] = <<>>]
               /\ pc' = [pc EXCEPT ![c] = "idle"]
          ELSE /\ trace' = [trace EXCEPT ![c] =
                      IF Truthy(r.content)
                      THEN @ \o <<ModelReturn, Send("chat_response", r.content)>>
                      ELSE Append(@, ModelReturn)]
               /\ todo' = [todo EXCEPT ![c] = @ \o r.tool_calls]
               /\ pc' = [pc EXCEPT ![c] = IF todo'[c] = <<>> THEN "idle" ELSE "tools"]
    /\ UNCHANGED <<active_connections, messages, exchanges>>
    /\ UNCHANGED toolVars

\* the follow-up response of the Chat Completion Provider comes back
FollowUp(c, responses) ==
    /\ pc[c] = "followup"
    /\ \E r \in responses :
          IF r.raises
          THEN /\ trace' = [trace EXCEPT ![c] = Append(@, ErrorMessage)]
               /\ todo' = [todo EXCEPT ![c] = <<>>]
               /\ pc' = [pc EXCEPT ![c] = "idle"]
          ELSE /\ trace' = [trace EXCEPT ![c] =
                      IF Truthy(r.content)
                      THEN @ \o <<ModelReturn, Send("chat_response", r.content)>>
                      ELSE Append(@, ModelReturn)]
               /\ pc' = [pc EXCEPT ![c] = IF todo[c] = <<>> THEN "idle" ELSE "tools"]
               /\ UNCHANGED todo
    /\ UNCHANGED <<active_connections, messages, exchanges>>
    /\ UNCHANGED toolVars

----------------------------------------------------------------------------
(* One connection, every kind of inbound text and model response *)

ChatPayloads ==
    { Payload(FALSE, FALSE, <<>>),
      Payload(TRUE, FALSE, <<>>),
      Payload(TRUE, TRUE, <<RawMessage(Absent, "str", "hi", Nil, Absent)>>),
      Payload(TRUE, TRUE, <<RawMessage("user", "dict", "", Nil, Absent)>>),
      Payload(TRUE, TRUE, <<RawMessage("user", "nested", "book me a trip", Nil, Absent)>>),
      Payload(TRUE, TRUE,
              << RawMessage("system", "str", "custom prompt", Nil, Absent),
                 RawMessage("user", "str", "show my trips", Nil, Absent),
                 RawMessage("assistant", "null", "",
                            Some(<<[id |-> "call_0", type |-> "function",
                                    function |-> [name |-> "get_trip_details",
                                                  arguments |-> [json_ok |-> TRUE, complete |-> TRUE,
                                                                 trip_id |-> None]]]>>),
                            Absent),
                 RawMessage("tool", "str", "{}", Nil, "call_0"),
                 RawMessage("user", "str", "book the hotel", Nil, Absent) >>),
      Payload(TRUE, TRUE,
              << RawMessage("user", "str", "hi", Nil, Absent),
                 RawMessage("tool", "str", "{}", Nil, Absent),
                 RawMessage("tool", "str", "{}", Nil, "call_7") >>) }

\* tool calls that are combined freely in one model response
CoreCalls ==
    { ToolCall("", "function", "search_flights", TRUE, TRUE, None),
      ToolCall("", "function", "book_flight", TRUE, TRUE, None),
      ToolCall("", "function", "book_hotel", TRUE, TRUE, None),
      ToolCall("", "function", "get_trip_details", TRUE, FALSE, None),
      ToolCall("", "function", "get_trip_details", TRUE, TRUE, "TRIP_19990101"),
      ToolCall("", "function", "no_such_tool", TRUE, TRUE, None),
      ToolCall("", "function", "search_flights", TRUE, FALSE, None),
      ToolCall("", "function", "book_hotel", FALSE, FALSE, None),
      ToolCall("", "code_interpreter", "search_flights", TRUE, TRUE, None) }

\* tool calls that come alone
SingleCalls ==
    { ToolCall("", "function", "search_hotels", TRUE, TRUE, None),
      ToolCall("", "function", "search_transfers", TRUE, TRUE, None),
      ToolCall("", "function", "book_transfer", TRUE, TRUE, None) }

\* the i-th tool call of a response gets the id call_i
WithIds(calls) == [i \in DOMAIN calls |-> [calls[i] EXCEPT !.id = "call_" \o Digit(i)]]

ToolCallLists ==
    { WithIds(calls) : calls \in UNION { [1..n -> CoreCalls] : n \in 0..MaxToolCalls } }
    \cup { WithIds(<<tc>>) : tc \in SingleCalls }

ModelResponses ==
    { ModelResponse(TRUE, None, <<>>) }
    \cup { ModelResponse(FALSE, content, calls) :
               content \in {None, "Let me look that up."}, calls \in ToolCallLists }

FollowUpResponses ==
    { ModelResponse(TRUE, None, <<>>),
      ModelResponse(FALSE, "Here is what I found.", <<>>),
      ModelResponse(FALSE, None, WithIds(<<ToolCall("", "function", "book_hotel", TRUE, TRUE, None)>>)) }

ChatConns == {"c1"}

InitChat ==
    /\ trip_storage = <<>>
    /\ now = Len(Instants)
    /\ last = NoOp
    /\ ledger_log = <<>>
    /\ InitChatVars

OpenChat == \E c \in ChatConns : Open(c)

DisconnectChat == \E c \in ChatConns : Disconnect(c)

ReceiveChat == \E c \in ChatConns : Receive(c, ChatPayloads)

ModelReplyChat == \E c \in ChatConns : ModelReply(c, ModelResponses)

DispatchChat == \E c \in ChatConns : Dispatch(c)

FollowUpChat == \E c \in ChatConns : FollowUp(c, FollowUpResponses)

NextChat ==
    \/ OpenChat
    \/ DisconnectChat
    \/ ReceiveChat
    \/ ModelReplyChat
    \/ DispatchChat
    \/ FollowUpChat

SpecChat == InitChat /\ [][NextChat]_vars

----------------------------------------------------------------------------
(* The reconstruction of the inbound message list as a function of the payload *)

MessageRoles == {"system", "user", "assistant", "tool", Absent}

ContentKinds == {"str", "nested"}

\* inbound lists of up to MaxMsgs entries; entry i carries the text "m<i>"
RawLists ==
    UNION { { [i \in 1..n |-> RawMessage(r[i], k[i], "m" \o Digit(i), Nil, Absent)] :
                  r \in [1..n -> MessageRoles], k \in [1..n -> ContentKinds] } :
            n \in 0..MaxMsgs }

\* main.py 502-543 on one inbound text: the list handed to ChatRequest, or
\* the exception that leaves the loop
ReconstructMessages ==
    /\ last = NoOp
    /\ \E raw \in RawLists :
          LET payload == Payload(TRUE, TRUE, raw)
          IN  last' = [ op |-> "reconstruct", payload |-> payload,
                        raises |-> PayloadRaises(payload),
                        ret |-> IF PayloadRaises(payload) THEN <<>> ELSE Reconstruct(payload) ]
    /\ UNCHANGED <<trip_storage, now, ledger_log>>
    /\ UNCHANGED chatVars

NextMessages == ReconstructMessages

SpecMessages == InitLedger /\ [][NextMessages]_vars

----------------------------------------------------------------------------
(* One connection whose provider calls and handlers always return *)

ExchangePayloads ==
    { Payload(FALSE, FALSE, <<>>),
      Payload(TRUE, TRUE, <<RawMessage("user", "str", "plan my trip", Nil, Absent)>>) }

ExchangeCalls ==
    { ToolCall("", "function", "get_trip_details", TRUE, TRUE, None),
      ToolCall("", "function", "search_flights", TRUE, TRUE, None),
      ToolCall("", "function", "no_such_tool", TRUE, TRUE, None),
      ToolCall("", "function", "book_hotel", FALSE, FALSE, None),
      ToolCall("", "code_interpreter", "search_flights", TRUE, TRUE, None) }

ExchangeResponses ==
    { ModelResponse(TRUE, None, <<>>) }
    \cup { ModelResponse(FALSE, "On it.", WithIds(calls)) :
               calls \in UNION { [1..n -> ExchangeCalls] : n \in 0..MaxToolCalls } }

OpenExchange == \E c \in ChatConns : Open(c)

DisconnectExchange == \E c \in ChatConns : Disconnect(c)

ReceiveExchange == \E c \in ChatConns : Receive(c, ExchangePayloads)

ModelReplyExchange == \E c \in ChatConns : ModelReply(c, ExchangeResponses)

DispatchExchange == \E c \in ChatConns : Dispatch(c)

FollowUpExchange == \E c \in ChatConns : FollowUp(c, FollowUpResponses)

NextExchange ==
    \/ OpenExchange
    \/ DisconnectExchange
    \/ ReceiveExchange
    \/ ModelReplyExchange
    \/ DispatchExchange
    \/ FollowUpExchange

\* every provider call and every handler returns, and the event loop resumes
\* the coroutine that awaited it
SpecExchange ==
    /\ InitChat
    /\ [][NextExchange]_vars
    /\ WF_vars(ModelReplyExchange)
    /\ WF_vars(DispatchExchange)
    /\ WF_vars(FollowUpExchange)

----------------------------------------------------------------------------
(* Two connections on one event loop, sharing the ledger *)

ConnPayloads ==
    { Payload(FALSE, FALSE, <<>>),
      Payload(TRUE, TRUE, <<RawMessage("user", "str", "book it", Nil, Absent)>>) }

ConnResponses ==
    { ModelResponse(FALSE, "One moment.", <<>>),
      ModelResponse(FALSE, None,
                    WithIds(<< ToolCall("", "function", "book_hotel", TRUE, TRUE, None),
                               ToolCall("", "function", "get_trip_details", TRUE, TRUE, None) >>)),
      ModelResponse(FALSE, None,
                    WithIds(<< ToolCall("", "function", "get_trip_details", TRUE, TRUE, "TRIP_20261101"),
                               ToolCall("", "function", "book_transfer", TRUE, TRUE, None) >>)) }

ConnFollowUps ==
    { ModelResponse(TRUE, None, <<>>),
      ModelResponse(FALSE, "Done.", <<>>) }

OpenConn == \E c \in Conns : Open(c)

DisconnectConn == \E c \in Conns : Disconnect(c)

ReceiveConn == \E c \in Conns : Receive(c, ConnPayloads)

ModelReplyConn == \E c \in Conns : ModelReply(c, ConnResponses)

DispatchConn == \E c \in Conns : Dispatch(c)

FollowUpConn == \E c \in Conns : FollowUp(c, ConnFollowUps)

\* module state at import, no connection accepted yet; the clock stands
\* still so that every booking of a run falls on one calendar day
InitConns ==
    /\ trip_storage = <<>>
    /\ now = Len(Instants)
    /\ last = NoOp
    /\ ledger_log = <<>>
    /\ InitChatVars

NextConns ==
    \/ OpenConn
    \/ DisconnectConn
    \/ ReceiveConn
    \/ ModelReplyConn
    \/ DispatchConn
    \/ FollowUpConn

SpecConns == InitConns /\ [][NextConns]_vars

----------------------------------------------------------------------------
(* Properties of the tool operations *)

\* the date digits YYYYMMDD of an instant, written without the strftime model
TwoDigits(n) == IF n < 10 THEN "0" \o IntStr(n) ELSE IntStr(n)

DateDigits(t) == IntStr(Instants[t].Y) \o TwoDigits(Instants[t].M) \o TwoDigits(Instants[t].D)

TimeDigits(t) == TwoDigits(Instants[t].h) \o TwoDigits(Instants[t].m) \o TwoDigits(Instants[t].s)

BookingOps == {"book_flight", "book_hotel", "book_transfer"}

\* the last booking stored under trip_id
LastBookingUnder(storage, trip_id) ==
    LET bookings == storage[TripIndex(storage, trip_id)].bookings
    IN  bookings[Len(bookings)]

\* `new` is `old` with exactly one booking appended to one trip (the trip
\* being created at the end of the ledger when it did not exist)
AppendedOne(old, new) ==
    \E i \in DOMAIN new :
        /\ new[i].bookings # <<>>
        /\ \/ old = [new EXCEPT ![i].bookings = SubSeq(@, 1, Len(@) - 1)]
           \/ /\ i = Len(new)
              /\ Len(new[i].bookings) = 1
              /\ old = SubSeq(new, 1, Len(new) - 1)

\* the re-search offers, read in order, reach the selected id before any
\* offer that has no id
SelectedOfferFound(call) ==
    \E i \in DOMAIN call.search.ids :
        /\ call.search.ids[i] = call.params.flight_id
        /\ \A j \in 1..(i - 1) : call.search.ids[j] # Absent

\* the three provider calls of the last book_flight all came back without
\* provider errors and the selected offer was among the re-search offers
AllStepsSucceeded(call) ==
    /\ ~call.search.raises /\ ~call.search.has_errors
    /\ SelectedOfferFound(call)
    /\ call.pricing.called /\ ~call.pricing.raises /\ ~call.pricing.has_errors
    /\ call.order.called /\ ~call.order.raises /\ ~call.order.has_errors

\* a step of the last book_flight failed: provider error, offer not found or exception
SomeStepFailed(call) ==
    \/ call.search.raises \/ call.search.has_errors
    \/ ~SelectedOfferFound(call)
    \/ ~call.pricing.called \/ call.pricing.raises \/ call.pricing.has_errors
    \/ ~call.pricing.has_offer
    \/ ~call.order.called \/ call.order.raises \/ call.order.has_errors
    \/ call.order.shape \in {"missing_key", "no_segments", "bad_type"}

\* C1: book_flight returns status=confirmed only if the re-search, the price
\* confirmation and the order creation all returned without provider errors
\* and the selected flight_id was among the re-search offers; when a step
\* fails the result has status=error and the step leaves the ledger unchanged.
C1_BookFlightAllOrNothing ==
    /\ [](last.op = "book_flight" =>
            /\ last.ret.status = "confirmed" => AllStepsSucceeded(last)
            /\ SomeStepFailed(last) => last.ret.status = "error")
    /\ [][(last'.op = "book_flight" /\ SomeStepFailed(last'))
            => trip_storage' = trip_storage]_vars

\* a failed order creation (after a successful re-search and pricing) on a
\* ledger that already holds a confirmed flight
C1_Witness ==
    /\ last.op = "book_flight"
    /\ last.order.called /\ last.order.has_errors
    /\ last.ret.status = "error"
    /\ CountBookings(trip_storage) = 1
    /\ trip_storage[1].bookings[1].booking_type = "flight"

\* C5: two bookings confirmed on the same calendar date are stored under the
\* same trip id, TRIP_YYYYMMDD of that date, and bookings confirmed on
\* different calendar dates under different trip ids (the date of a booking
\* is the date the clock shows when it is written to the ledger).
C5_SameDateSameTrip ==
    \A i \in DOMAIN ledger_log :
        /\ ledger_log[i].trip_id = "TRIP_" \o DateDigits(ledger_log[i].at)
        /\ \A j \in DOMAIN ledger_log :
              (Date(ledger_log[i].at) = Date(ledger_log[j].at))
                  <=> (ledger_log[i].trip_id = ledger_log[j].trip_id)

\* three bookings, two on one date in one trip and one on another date in another trip
C5_Witness ==
    /\ Len(ledger_log) >= 3
    /\ \E i, j, k \in DOMAIN ledger_log :
          /\ i # j
          /\ Date(ledger_log[i].at) = Date(ledger_log[j].at)
          /\ Date(ledger_log[i].at) # Date(ledger_log[k].at)
          /\ BookingsUnder(trip_storage, ledger_log[i].trip_id) >= 2
          /\ BookingsUnder(trip_storage, ledger_log[k].trip_id) >= 1

\* C6: the ledger changes only in a step of book_flight, book_hotel or
\* book_transfer whose result is confirmed, and then by the append of one
\* booking with status confirmed; every other step (the searches,
\* get_trip_details, a booking that returns status=error) leaves it unchanged.
C6_OnlyConfirmedBookingsWrite ==
    [][trip_storage' # trip_storage =>
          /\ last'.op \in BookingOps
          /\ last'.ret.status = "confirmed"
          /\ AppendedOne(trip_storage, trip_storage')
          /\ \E id \in GrownTrips(trip_storage, trip_storage') :
                LastBookingUnder(trip_storage', id).status = "confirmed"]_vars

\* a search has run on a ledger that holds bookings of two trips
C6_Witness ==
    /\ last.op \in {"search_flights", "search_hotels", "search_transfers"}
    /\ Len(trip_storage) = 2

\* C7 as stated: an id that is not a key of the ledger gives an empty list
\* and a non-empty error, a known id exactly that trip, no id all trips.
C7_UnknownIdIsAnError ==
    last.op = "get_trip_details" =>
        /\ (last.trip_id # None /\ ~HasTrip(trip_storage, last.trip_id))
              => (last.ret.trips = <<>> /\ Truthy(last.ret.error))
        /\ (last.trip_id # None /\ HasTrip(trip_storage, last.trip_id))
              => (/\ Len(last.ret.trips) = 1
                  /\ last.ret.trips[1].trip_id = last.trip_id
                  /\ last.ret.trips[1] \in {trip_storage[i] : i \in DOMAIN trip_storage})
        /\ last.trip_id = None => last.ret.trips = trip_storage

\* C8: book_transfer returns status confirmed and the booking id TR- plus the
\* 14 digits YYYYMMDDHHMMSS of the instant of the call, and the ledger then
\* holds, under the trip id of the day of the write, a transfer entry with
\* that result as its last booking.
C8_BookTransferStored ==
    last.op = "book_transfer" =>
        /\ last.ret.status = "confirmed"
        /\ last.ret.booking_id = "TR-" \o DateDigits(last.reads[1]) \o TimeDigits(last.reads[1])
        /\ Len(last.ret.booking_id) = 3 + 14
        /\ HasTrip(trip_storage, "TRIP_" \o DateDigits(last.reads[3]))
        /\ LET b == LastBookingUnder(trip_storage, "TRIP_" \o DateDigits(last.reads[3]))
           IN  /\ b.booking_type = "transfer"
               /\ b.transfer_booking = Some(last.ret)

\* a transfer booked at 00:00:00 of a single-digit day, into a trip that
\* already held a booking
C8_Witness ==
    /\ last.op = "book_transfer"
    /\ Instants[last.reads[1]].h = 0
    /\ Instants[last.reads[1]].D < 10
    /\ BookingsUnder(trip_storage, "TRIP_" \o DateDigits(last.reads[3])) = 2

\* the flights of a result, empty when the field is None
FlightsOf(ret) == IF ret.flights = Nil THEN <<>> ELSE ret.flights[1]

\* C9: for every provider response (success, provider error, malformed
\* shape, transport exception) the result of search_flights never has both a
\* non-empty flights list and a non-empty error string.
C9_FlightsXorError ==
    last.op = "search_flights" =>
        ~(FlightsOf(last.ret) # <<>> /\ Truthy(last.ret.error))

\* a response whose first two offers are well formed and whose third is not
C9_Witness ==
    /\ last.op = "search_flights"
    /\ last.resp.has_data
    /\ Len(last.resp.data) >= 3
    /\ last.resp.data[3].shape = "missing_key"
    /\ Truthy(last.ret.error)

\* C10: for a provider response with n flight offers (no errors key, the
\* offers that are read well formed) search_flights returns min(n, 5)
\* flights, and they are the first min(n, 5) offers in the provider's order.
C10_FirstFiveInOrder ==
    (/\ last.op = "search_flights"
     /\ ~last.resp.raises /\ ~last.resp.has_errors /\ last.resp.has_data
     /\ \A i \in 1..Min(Len(last.resp.data), 5) : last.resp.data[i].shape = "ok")
    => /\ last.ret.error = None
       /\ Len(FlightsOf(last.ret)) = Min(Len(last.resp.data), 5)
       /\ \A i \in 1..Min(Len(last.resp.data), 5) :
             /\ FlightsOf(last.ret)[i].price.amount = last.resp.data[i].total
             /\ Len(FlightsOf(last.ret)[i].flight.segments) = Len(last.resp.data[i].segments)

\* six offers came back and five flights were returned
C10_Witness ==
    /\ last.op = "search_flights"
    /\ last.resp.has_data
    /\ Len(last.resp.data) = 6
    /\ Len(FlightsOf(last.ret)) = 5

----------------------------------------------------------------------------
(* Properties of the conversation loop *)

\* the loop of a connection has ended
LoopEnded(c) == pc[c] \in {"disconnected", "crashed"}

\* C2 as stated: whatever an inbound text raises, the loop of the connection
\* goes on; a loop that has ended was ended by the client's disconnect, which
\* also took the connection out of the registry.
C2_OnlyDisconnectEndsLoop ==
    \A c \in Conns :
        LoopEnded(c) =>
            /\ pc[c] = "disconnected"
            /\ \A i \in DOMAIN active_connections : active_connections[i] # c

\* this step of connection c ran a tool handler
ToolRanStep(c) ==
    /\ pc[c] = "tools"
    /\ Len(trace'[c]) > Len(trace[c])
    /\ trace'[c][Len(trace[c]) + 1].ev = "tool_run"

\* C3: a step that ran a tool whose result has a non-empty error sends the
\* apology chat_response containing that error, leaves the conversation
\* history as it was, and goes on to the next tool call of the response.
C3_ToolErrorIsApologized ==
    [][\A c \in Conns :
          (ToolRanStep(c) /\ Truthy(last'.ret.error)) =>
              /\ trace'[c][Len(trace'[c])] =
                     Send("chat_response",
                          "I encountered an error: " \o last'.ret.error
                              \o ". Let me help you try again.")
              /\ Len(trace'[c]) = Len(trace[c]) + 3
              /\ messages'[c] = messages[c]
              /\ todo'[c] = Tail(todo[c])
              /\ pc'[c] = IF Tail(todo[c]) = <<>> THEN "idle" ELSE "tools"]_vars

\* a tool reported an unknown trip, the client got the apology, and the next
\* tool call of the same response ran
C3_Witness ==
    \E c \in Conns : \E i \in 1..(Len(trace[c]) - 1) :
        /\ trace[c][i] = Apology(get_trip_details(trip_storage, "TRIP_19990101").error)
        /\ trace[c][i + 1].ev = "tool_run"

\* a tool call that cannot be dispatched
BadToolCall(tc) ==
    /\ tc.type = "function"
    /\ \/ tc.name \notin FunctionNames
       \/ ~tc.arguments.json_ok
       \/ tc.name # "get_trip_details" /\ ~tc.arguments.complete

\* C4 as stated: a tool call with an unknown name or malformed or missing
\* arguments is reported to the client and only that call is skipped: the
\* later tool calls of the response are still to be dispatched and the
\* connection stays open.
C4_BadToolCallSkipsOnlyItself ==
    [][\A c \in Conns :
          (pc[c] = "tools" /\ todo'[c] # todo[c] /\ BadToolCall(Head(todo[c]))) =>
              /\ Len(trace'[c]) > Len(trace[c])
              /\ todo'[c] = Tail(todo[c])
              /\ pc'[c] = IF Tail(todo[c]) = <<>> THEN "idle" ELSE "tools"]_vars

----------------------------------------------------------------------------
(* Properties of the search results *)

\* C11: every flight search_flights returns has stops equal to the number of
\* segments of its offer minus one (0 for a single segment), and its segments
\* are the offer's segments in the provider's order.
C11_StopsAreSegmentsMinusOne ==
    last.op = "search_flights" =>
        \A i \in DOMAIN FlightsOf(last.ret) :
            LET flight == FlightsOf(last.ret)[i].flight
                segments == last.resp.data[i].segments
            IN  /\ flight.stops = Len(segments) - 1
                /\ Len(segments) = 1 => flight.stops = 0
                /\ Len(flight.segments) = Len(segments)
                /\ \A k \in DOMAIN segments :
                      /\ flight.segments[k].number = segments[k].number
                      /\ flight.segments[k].departure.time = segments[k].departure.at
                      /\ flight.segments[k].arrival.time = segments[k].arrival.at

\* a search returned a direct flight and a flight with one stop
C11_Witness ==
    /\ last.op = "search_flights"
    /\ \E i, j \in DOMAIN FlightsOf(last.ret) :
          /\ FlightsOf(last.ret)[i].flight.stops = 0
          /\ Len(last.resp.data[i].segments) = 1
          /\ FlightsOf(last.ret)[j].flight.stops = 1
          /\ Len(FlightsOf(last.ret)[j].flight.segments) = 2

\* the hotels of a result, <<>> when there are none
HotelsOf(ret) == IF ret.hotels = Nil THEN <<>> ELSE ret.hotels[1]

\* the room offers of a hotel entry whose total parses as a number
ParsableOffers(offers) ==
    {k \in DOMAIN offers : ParseFloat(Get(offers[k].total, "inf")).kind = "num"}

\* every total of the offer lookup is a string or missing, every entry has its hotel
OffersWellTyped(offr) ==
    /\ offr.called /\ ~offr.raises /\ offr.has_data
    /\ \A i \in DOMAIN offr.data :
          /\ offr.data[i].shape = "ok"
          /\ \A k \in DOMAIN offr.data[i].offers : offr.data[i].offers[k].total_is_str

----------------------------------------------------------------------------
(* Order of the steps of one exchange *)

\* C13: in every exchange the message_received acknowledgment is sent before
\* the Chat Completion Provider is called: every provider call recorded in
\* the trace of the exchange has the acknowledgment before it.
C13_AckBeforeModelCall ==
    \A c \in Conns : \A i \in DOMAIN trace[c] :
        trace[c][i].ev = "model_call" =>
            \E j \in 1..(i - 1) : trace[c][j] = Ack

\* a connection waits for the first response of an exchange, acknowledged
C13_Witness ==
    \E c \in Conns :
        /\ pc[c] = "model"
        /\ Len(trace[c]) = 2
        /\ trace[c][1] = Ack
        /\ trace[c][2].ev = "model_call"

\* positions of the trace of c where a tool handler ran
ToolRuns(c) == {i \in DOMAIN trace[c] : trace[c][i].ev = "tool_run"}

\* C14 as stated: for every tool call the notice "Browsing for options..."
\* is sent first, then the handler is dispatched, then the assistant
\* tool-call message and the tool result message are appended, then the
\* Chat Completion Provider is called with the updated history.
C14_NoticeThenDispatchThenAppend ==
    \A c \in Conns : \A i \in ToolRuns(c) :
        /\ i > 1
        /\ trace[c][i - 1] = Browsing
        /\ \A j \in (i + 1)..Len(trace[c]) :
              (/\ trace[c][j].ev = "model_call"
               /\ \A k \in (i + 1)..(j - 1) : trace[c][k].ev \notin {"model_call", "tool_run"})
              => LET msgs == trace[c][j].messages
                     n == Len(msgs)
                 IN  /\ n >= 2
                     /\ msgs[n - 1].role = "assistant"
                     /\ msgs[n - 1].tool_calls # Nil
                     /\ msgs[n - 1].tool_calls[1][1].id = trace[c][i].id
                     /\ msgs[n].role = "tool"
                     /\ msgs[n].tool_call_id = trace[c][i].id

\* position of a tool call in its model response, read from its id call_n
CallIndex(id) == CHOOSE n \in 1..9 : id = "call_" \o Digit(n)

\* C15: the tool calls of one model response are handled one at a time in
\* the order of the response: handlers run in increasing position, none
\* twice, and before the next handler starts the previous call is finished:
\* its notice is sent and either its error was apologized for, or its result
\* was appended and the follow-up call of the provider has returned.
C15_ToolCallsOneAtATimeInOrder ==
    \A c \in Conns : \A i, j \in ToolRuns(c) :
        i < j =>
            /\ CallIndex(trace[c][i].id) < CallIndex(trace[c][j].id)
            /\ i + 2 < j
            /\ trace[c][i + 1] = Browsing
            /\ \/ trace[c][i + 2].ev = "send"
               \/ /\ trace[c][i + 2].ev = "model_call"
                  /\ i + 3 < j
                  /\ trace[c][i + 3].ev = "model_return"

\* two handlers ran in one exchange, the first with a follow-up call of the
\* provider between them
C15_Witness ==
    \E c \in Conns : \E i, j \in ToolRuns(c) :
        /\ i < j
        /\ trace[c][i + 2].ev = "model_call"
        /\ trace[c][i].id = "call_1"
        /\ trace[c][j].id = "call_2"

\* c is in the registry of open connections
Registered(c) == \E i \in DOMAIN active_connections : active_connections[i] = c

\* C18 as stated: the registry holds exactly the connections whose
\* conversation loop is running, each once.
C18_RegistryIsRunningLoops ==
    /\ \A c \in Conns : Registered(c) <=> pc[c] \in {"idle", "model", "tools", "followup"}
    /\ \A i, j \in DOMAIN active_connections :
          active_connections[i] = active_connections[j] => i = j

----------------------------------------------------------------------------
(* Two connections on one event loop *)

InProviderCall(c) == pc[c] \in {"model", "followup"}

\* C16 as stated: while one connection waits on a call to the Chat
\* Completion Provider, another connection that is idle with a message
\* pending can still receive it; the call of one connection does not block
\* the progress of the others.
C16_ProviderCallDoesNotBlockOthers ==
    \A c, d \in Conns :
        (c # d /\ InProviderCall(c) /\ pc[d] = "idle" /\ exchanges[d] < MaxExchanges)
            => ENABLED Receive(d, ConnPayloads)

\* the trip id store_booking derives for an append made at instant t
TripOfDay(t) == "TRIP_" \o DateDigits(t)

\* the appends of the history that fell on the calendar day of instant t
AppendsOnDay(t) == {j \in DOMAIN ledger_log : Date(ledger_log[j].at) = Date(t)}

\* C17: whatever the interleaving of the booking operations of the
\* connections, no append is lost: after k confirmed bookings on one calendar
\* day that day's trip holds exactly k bookings, and a get_trip_details that
\* runs after them returns all k.
C17_NoAppendLost ==
    /\ \A i \in DOMAIN ledger_log :
          BookingsUnder(trip_storage, TripOfDay(ledger_log[i].at))
              = Cardinality(AppendsOnDay(ledger_log[i].at))
    /\ last.op = "get_trip_details" =>
          \A i \in DOMAIN ledger_log :
              (last.trip_id \in {None, TripOfDay(ledger_log[i].at)}) =>
                  \E n \in DOMAIN last.ret.trips :
                      /\ last.ret.trips[n].trip_id = TripOfDay(ledger_log[i].at)
                      /\ Len(last.ret.trips[n].bookings)
                            = Cardinality(AppendsOnDay(ledger_log[i].at))

\* c1 booked a hotel, then c2 booked a transfer while c1 still had a tool call
\* pending, then c1 read the ledger and saw both bookings
C17_Witness ==
    /\ Len(ledger_log) = 2
    /\ ledger_log[1].booking_type = "hotel"
    /\ ledger_log[2].booking_type = "transfer"
    /\ \E i \in ToolRuns("c1") : trace["c1"][i].name = "book_hotel"
    /\ \E i \in ToolRuns("c2") : trace["c2"][i].name = "book_transfer"
    /\ \E i \in ToolRuns("c1") : trace["c1"][i].name = "get_trip_details"
    /\ last.op = "get_trip_details"
    /\ last.trip_id = None
    /\ Len(last.ret.trips) = 1
    /\ Len(last.ret.trips[1].bookings) = 2

----------------------------------------------------------------------------
(* The message lists passed to the Chat Completion Provider *)

\* every tool message of msgs carries the id of a tool call of an assistant
\* message before it
WellLinked(msgs) ==
    \A i \in DOMAIN msgs :
        msgs[i].role = "tool" =>
            /\ msgs[i].tool_call_id # None
            /\ \E j \in 1..(i - 1) :
                  /\ msgs[j].role = "assistant"
                  /\ msgs[j].tool_calls # Nil
                  /\ \E k \in DOMAIN msgs[j].tool_calls[1] :
                        msgs[j].tool_calls[1][k].id = msgs[i].tool_call_id

\* the lists passed to the provider in the current exchange of c, in order
ProviderCalls(c) == SelectSeq(trace[c], LAMBDA e : e.ev = "model_call")

\* C19 as stated: in every list passed to the provider each tool message
\* carries the id of a tool call of an earlier assistant message of the list.
C19_ToolMessagesAreLinked ==
    \A c \in Conns : \A n \in DOMAIN ProviderCalls(c) :
        WellLinked(ProviderCalls(c)[n].messages)

\* C19 amended: the messages received from the client are passed on as
\* received; every tool message the orchestrator appends carries the id of
\* the tool call of the assistant message appended just before it.  So a
\* list passed to the provider is well linked whenever the client's list is.
C19_AppendedToolMessagesAreLinked ==
    \A c \in Conns : \A n \in DOMAIN ProviderCalls(c) :
        LET first == ProviderCalls(c)[1].messages
            msgs == ProviderCalls(c)[n].messages
        IN  /\ Len(msgs) >= Len(first)
            /\ SubSeq(msgs, 1, Len(first)) = first
            /\ \A i \in (Len(first) + 1)..Len(msgs) :
                  msgs[i].role = "tool" =>
                      /\ msgs[i].tool_call_id # None
                      /\ msgs[i - 1].role = "assistant"
                      /\ msgs[i - 1].tool_calls # Nil
                      /\ msgs[i - 1].tool_calls[1][1].id = msgs[i].tool_call_id
            /\ WellLinked(first) => WellLinked(msgs)

\* a follow-up call whose list holds a linked tool message of the client and
\* a tool message the orchestrator appended
C19_Witness ==
    \E c \in Conns : \E n \in DOMAIN ProviderCalls(c) :
        LET msgs == ProviderCalls(c)[n].messages
        IN  /\ n > 1
            /\ WellLinked(msgs)
            /\ \E a, b \in DOMAIN msgs :
                  /\ a < b
                  /\ msgs[a].role = "tool" /\ msgs[a].tool_call_id = "call_0"
                  /\ msgs[b].role = "tool" /\ msgs[b].tool_call_id = "call_1"

----------------------------------------------------------------------------
(* Shape of the booking results *)

\* C20 as stated: a BookingResult of book_flight has status confirmed or
\* error; confirmed comes with a booking reference and flight details and no
\* error, error comes with a non-empty error string and neither a booking
\* reference nor flight details.
C20_BookingResultShape ==
    last.op = "book_flight" =>
        /\ last.ret.status \in {"confirmed", "error"}
        /\ last.ret.status = "confirmed" =>
              /\ last.ret.booking_reference # None
              /\ last.ret.flight_details # Nil
              /\ last.ret.error = None
        /\ last.ret.status = "error" =>
              /\ Truthy(last.ret.error)
              /\ last.ret.booking_reference = None
              /\ last.ret.flight_details = Nil

----------------------------------------------------------------------------
(* Further properties of the search and booking results *)

\* C21 as stated: search_flights returns either a non-empty list of flights
\* or a non-empty error string; no provider response gives a result that
\* has neither.
C21_FlightsOrError ==
    last.op = "search_flights" =>
        (FlightsOf(last.ret) # <<>> \/ Truthy(last.ret.error))

----------------------------------------------------------------------------
(* Properties of the message list handed to the provider *)

\* the inbound list names a system message
HasSystem(raw) == \E i \in DOMAIN raw : raw[i].role = "system"

\* C22: for every inbound message list that is reconstructed, the fixed
\* system prompt is inserted as the first message exactly when the list
\* holds no message with role system; otherwise nothing is inserted, and in
\* both cases the client's messages follow in their original order.
C22_SystemPromptIffNoSystemMessage ==
    (last.op = "reconstruct" /\ ~last.raises) =>
        LET raw == last.payload.raw
            out == last.ret
            k == Len(out) - Len(raw)
        IN  /\ k = (IF HasSystem(raw) THEN 0 ELSE 1)
            /\ k = 1 => out[1] = ChatMessage("system", SYSTEM_PROMPT, Nil, None)
            /\ \A i \in DOMAIN raw :
                  /\ out[i + k].role = raw[i].role
                  /\ out[i + k].content = raw[i].content.text
                  /\ out[i + k].tool_calls = raw[i].tool_calls
                  /\ out[i + k].tool_call_id = None

\* a list whose system message is not the first one: nothing is inserted
C22_Witness ==
    /\ last.op = "reconstruct"
    /\ ~last.raises
    /\ Len(last.payload.raw) = 3
    /\ last.payload.raw[1].role = "user"
    /\ last.payload.raw[2].role = "system"
    /\ Len(last.ret) = 3
    /\ last.ret[1].role = "user"

----------------------------------------------------------------------------
(* Termination of an exchange *)

\* provider calls made so far in the exchange plus tool calls still queued
Budget(c) == Len(ProviderCalls(c)) + Len(todo[c])

\* C23: when every provider call returns, an exchange that reached the
\* Chat Completion Provider comes back to Idle; after the initial response
\* with k tool calls one provider call has been made and k calls are
\* queued, and from then on every further provider call uses up a queued
\* call and nothing a follow-up response asks for is queued, so the
\* provider is invoked at most 1 + k times.
C23_ExchangeTerminates ==
    /\ \A c \in ChatConns : (pc[c] = "model") ~> (pc[c] = "idle")
    /\ [][\A c \in ChatConns :
             /\ pc[c] = "model" => Len(ProviderCalls(c)') = 1
             /\ pc[c] \in {"tools", "followup"} => Budget(c)' <= Budget(c)
             /\ pc[c] = "followup" => Len(todo'[c]) <= Len(todo[c])]_vars

\* an exchange whose initial response had two tool calls is back in Idle
\* after three provider calls and two handler runs
C23_Witness ==
    /\ pc["c1"] = "idle"
    /\ Len(ProviderCalls("c1")) = 1 + MaxToolCalls
    /\ Cardinality(ToolRuns("c1")) = MaxToolCalls
    /\ todo["c1"] = <<>>

----------------------------------------------------------------------------
(* Messages sent to the client *)

\* C24 as stated: a chat_response is sent for a model response only if the
\* response has text content; no chat_response with an empty or null
\* message is ever sent.
C24_NoEmptyChatResponse ==
    \A c \in Conns : \A i \in DOMAIN trace[c] :
        (trace[c][i].ev = "send" /\ trace[c][i].type = "chat_response")
            => Truthy(trace[c][i].message)

----------------------------------------------------------------------------
(* Errors of the price confirmation and of the order creation in book_flight *)

\* the provider reported an error at the price-confirmation step
PricingErrored ==
    /\ last.op = "book_flight"
    /\ last.pricing.called
    /\ ~last.pricing.raises
    /\ last.pricing.has_errors
    /\ last.pricing.errors # <<>>

\* C25 as stated: a provider error at the price-confirmation step whose
\* detail mentions a detected schedule change yields the schedule-change
\* message of the order-creation step; any other provider error at that step
\* surfaces the provider's detail.
C25_PricingScheduleChange ==
    PricingErrored =>
        LET detail == last.pricing.errors[1].detail
        IN  IF Contains("schedule change detected", Lower(Get(detail, "")))
            THEN last.ret.error = ScheduleChangeError
            ELSE last.ret.error = Get(detail, "Price confirmation failed")

----------------------------------------------------------------------------
(* The ledger over time *)

\* sequence s is an initial part of sequence t
IsPrefix(s, t) == Len(s) <= Len(t) /\ SubSeq(t, 1, Len(s)) = s

\* the appends recorded before the last one that fell on the day of instant t
EarlierAppendsOnDay(log, t) ==
    {j \in 1..(Len(log) - 1) : Date(log[j].at) = Date(t)}

\* C26: over any sequence of operations the ledger is append-only: every
\* trip stays where it is and keeps its id, the bookings it had stay in
\* place and in order, no trip is deleted, and a trip appears only in the
\* step that records the first booking of its calendar day.
C26_LedgerIsAppendOnly ==
    [][/\ Len(trip_storage') >= Len(trip_storage)
       /\ \A i \in DOMAIN trip_storage :
             /\ trip_storage'[i].trip_id = trip_storage[i].trip_id
             /\ IsPrefix(trip_storage[i].bookings, trip_storage'[i].bookings)
       /\ \A i \in (DOMAIN trip_storage') \ (DOMAIN trip_storage) :
             /\ last'.op \in BookingOps
             /\ last'.ret.status = "confirmed"
             /\ Len(trip_storage'[i].bookings) = 1
             /\ Len(ledger_log') = Len(ledger_log) + 1
             /\ trip_storage'[i].trip_id = TripOfDay(ledger_log'[Len(ledger_log')].at)
             /\ EarlierAppendsOnDay(ledger_log', ledger_log'[Len(ledger_log')].at) = {}]_vars

\* a second day's trip was created after the first day's trip had grown to
\* two bookings, which are still there
C26_Witness ==
    /\ Len(trip_storage) = 2
    /\ Len(trip_storage[1].bookings) = 2
    /\ Len(trip_storage[2].bookings) = 1
    /\ Len(ledger_log) = 3
    /\ Date(ledger_log[1].at) = Date(ledger_log[2].at)
    /\ Date(ledger_log[3].at) # Date(ledger_log[1].at)
    /\ last.op = "get_trip_details"

\* C28 as stated: every booking stored under trip id TRIP_YYYYMMDD has the
\* booking_date YYYY-MM-DD of that same calendar date, whenever
\* store_booking runs, also when the date changes between its two reads of
\* the clock.
C28_BookingDateMatchesTrip ==
    \A i \in DOMAIN trip_storage : \A n \in DOMAIN trip_storage[i].bookings :
        \E t \in Times :
            /\ trip_storage[i].trip_id = "TRIP_" \o StampYmd(t)
            /\ trip_storage[i].bookings[n].booking_date = StampIsoDate(t)

\* C27 as stated: when the city lookup or the batched offer lookup of
\* search_hotels returns a provider-reported error, the result carries a
\* non-empty error string.
C27_HotelProviderErrorIsReported ==
    (/\ last.op = "search_hotels"
     /\ \/ (~last.hotels.raises /\ last.hotels.has_errors)
        \/ (last.offers.called /\ ~last.offers.raises /\ last.offers.has_errors))
    => Truthy(last.ret.error)

\* the provider accepted the final order: the order-creation call returned
\* and its response has no errors key
OrderAccepted ==
    /\ last.op = "book_flight"
    /\ last.order.called
    /\ ~last.order.raises
    /\ ~last.order.has_errors

\* the ledger holds the result of the last book_flight as the newest
\* booking of the trip of the day of the write
FlightIsStored ==
    /\ Len(last.reads) = 2
    /\ HasTrip(trip_storage, "TRIP_" \o StampYmd(last.reads[2]))
    /\ LastBookingUnder(trip_storage, "TRIP_" \o StampYmd(last.reads[2])).flight_booking
          = Some(last.ret)

\* C29 as stated: whenever the provider accepts the final order,
\* book_flight returns status confirmed and the ledger gains the flight
\* entry.
C29_AcceptedOrderIsConfirmed ==
    OrderAccepted => (last.ret.status = "confirmed" /\ FlightIsStored)

\* C29 as amended: an accepted order whose response the extraction can read
\* gives status confirmed and a ledger entry; an accepted order whose
\* response it cannot read gives the generic error and no ledger write.
C29_ReadableAcceptedOrderIsConfirmed ==
    OrderAccepted =>
        IF last.order.shape \in {"ok", "no_id"}
        THEN last.ret.status = "confirmed" /\ FlightIsStored
        ELSE /\ last.ret.status = "error"
             /\ last.ret.error = BookFlightExceptionError
             /\ last.reads = <<>>

\* an accepted order without an id is confirmed under the reference Unknown
\* and stored as the second flight of the day
C29_Witness ==
    /\ OrderAccepted
    /\ last.order.shape = "no_id"
    /\ last.ret.booking_reference = "Unknown"
    /\ FlightIsStored
    /\ BookingsUnder(trip_storage, "TRIP_" \o StampYmd(last.reads[2])) = 2

----------------------------------------------------------------------------
(* Error results of the booking operations in the conversation *)

\* C30 as stated: a step that ran a booking tool whose result has status
\* error appends nothing to the conversation history and makes no follow-up
\* call of the Chat Completion Provider.
C30_ErrorStatusIsNeverAppended ==
    [][\A c \in Conns :
          (/\ ToolRanStep(c)
           /\ last'.op \in BookingOps
           /\ last'.ret.status = "error")
          => (messages'[c] = messages[c] /\ pc'[c] # "followup")]_vars

====
